---- MODULE Spec2Model ----
(***************************************************************************)
(* A model of local_faiss_mcp/server.py: the FAISSVectorStore class (its   *)
(* constructor, save, chunk_text, ingest and query) over one pair of       *)
(* persisted files, the Index file and the Metadata JSON file.             *)
(*                                                                         *)
(* A Python str is held as a string; where the code looks into it (split,  *)
(* encode) it is given as its sequence of one-character strings, and Str   *)
(* turns such a sequence into the string.  An embedding vector is a record *)
(* [d, x]: d is its dimension and x its leading coordinates, all the other *)
(* coordinates being zero.                                                 *)
(***************************************************************************)
EXTENDS Integers, Sequences, FiniteSets, TLC

VARIABLES stores, indexFile, metaFile, lastOp, faults, server

vars == <<stores, indexFile, metaFile, lastOp, faults, server>>

----------------------------------------------------------------------------
(* Bounds of the model *)

\* an ingest is explored only while the Index holds at most this many vectors afterwards
MaxVectors == 3
\* calls that the environment makes fail (an embedding or a file operation), in all
MaxFaults == 1

\* chunk_text on its own is explored on texts of at most this many characters
MaxTextLen == 5
\* and with chunk sizes of at most this many words
MaxChunkSize == 3

\* the server is explored until it has accepted this many tool calls
MaxCalls == 3

\* the store objects: one is alive at a time over the pair of files, and a later
\* constructor call gives the next one
Stores == {1}

----------------------------------------------------------------------------
(* Program constants *)

\* chunk_text(self, text, chunk_size=500, overlap=50)
DefaultChunkSize == 500
DefaultOverlap == 50
\* query(self, query_text, top_k=3)
DefaultTopK == 3

----------------------------------------------------------------------------
(* Inputs *)

Whitespace == {" ", "\n"}

\* n times the word w followed by one space
Repeat(w, n) == [i \in 1..(2 * n) |-> IF i % 2 = 1 THEN w ELSE " "]

\* the documents handed to ingest, by name
DocNames == {"empty", "blank", "short", "long"}

DocText(name) ==
    CASE name = "empty" -> <<>>
      [] name = "blank" -> <<" ", "\n", " ">>
      [] name = "short" -> <<" ", "b", " ", " ", "a", "\n">>
      [] name = "long"  -> Repeat("a", DefaultChunkSize - DefaultOverlap) \o <<"b">>

\* the (document, source) pairs of the ingest calls
IngestInputs ==
    { [doc |-> "empty", source |-> "unknown"],
      [doc |-> "blank", source |-> "blank.txt"],
      [doc |-> "short", source |-> "unknown"],
      [doc |-> "long",  source |-> "doc1.txt"] }

\* the query texts and the values of top_k
QueryTexts == { <<"a">>, <<"b", " ", "a">> }
TopKs == {1, DefaultTopK, 100}

\* the (query_text, top_k) pairs of the query calls
QueryInputs ==
    { [text |-> <<"a">>, top_k |-> 1],
      [text |-> <<"b", " ", "a">>, top_k |-> DefaultTopK],
      [text |-> <<"a">>, top_k |-> 100] }

\* the embedding models that the stores are constructed with
Models == {"all-MiniLM-L6-v2", "all-mpnet-base-v2"}

\* two models of the same width, for a store that is loaded with another model
\* than the one it was created with
SwitchModels == {"all-MiniLM-L6-v2", "all-MiniLM-L12-v2"}

\* the width of a model's output: 384 for the MiniLM models, 768 for mpnet
ModelDim(m) == IF m = "all-mpnet-base-v2" THEN 768 ELSE 384

----------------------------------------------------------------------------
(* chunk_text *)

\* a word of the text starts at position i
IsWordStart(text, i) ==
    /\ text[i] \notin Whitespace
    /\ i = 1 \/ text[i - 1] \in Whitespace

\* the positions in lo..hi where a word starts, ascending
RECURSIVE WordStarts(_, _, _)
WordStarts(text, lo, hi) ==
    IF lo > hi THEN <<>>
    ELSE IF lo = hi THEN (IF IsWordStart(text, lo) THEN <<lo>> ELSE <<>>)
    ELSE LET mid == (lo + hi) \div 2
         IN  WordStarts(text, lo, mid) \o WordStarts(text, mid + 1, hi)

\* the last position of the word that holds position i
RECURSIVE WordEnd(_, _)
WordEnd(text, i) ==
    IF i = Len(text) \/ text[i + 1] \in Whitespace THEN i ELSE WordEnd(text, i + 1)

\* text.split(' '): the text cut at every single space, empty pieces kept
SplitOnSpaces(text) ==
    LET IsSpace(i) == text[i] = " "
        cuts == <<0>> \o SelectSeq([i \in 1..Len(text) |-> i], IsSpace)
                     \o <<Len(text) + 1>>
    IN  [k \in 1..(Len(cuts) - 1) |-> SubSeq(text, cuts[k] + 1, cuts[k + 1] - 1)]

\* text.split(): the maximal runs of non-whitespace characters, in order
Split(text) ==
    LET starts == WordStarts(text, 1, Len(text))
    IN  [k \in 1..Len(starts) |-> SubSeq(text, starts[k], WordEnd(text, starts[k]))]

\* ' '.join(words)
RECURSIVE Join(_)
Join(words) ==
    IF words = <<>> THEN <<>>
    ELSE IF Len(words) = 1 THEN words[1]
    ELSE LET mid == Len(words) \div 2
         IN  Join(SubSeq(words, 1, mid)) \o <<" ">>
                 \o Join(SubSeq(words, mid + 1, Len(words)))

\* words[i:j] for 0 <= i <= j (python offsets, from 0; j may pass the end)
Slice(words, i, j) ==
    SubSeq(words, i + 1, IF j < Len(words) THEN j ELSE Len(words))

\* the body of: for i in range(i, len(words), step)
RECURSIVE ChunksFrom(_, _, _, _)
ChunksFrom(words, i, chunk_size, step) ==
    IF i >= Len(words) THEN <<>>
    ELSE LET chunk == Join(Slice(words, i, i + chunk_size))
         IN  (IF chunk # <<>> THEN <<chunk>> ELSE <<>>)
                 \o ChunksFrom(words, i + step, chunk_size, step)

\* the str of a sequence of characters
RECURSIVE Str(_)
Str(chars) ==
    IF chars = <<>> THEN ""
    ELSE IF Len(chars) = 1 THEN chars[1]
    ELSE LET mid == Len(chars) \div 2
         IN  Str(SubSeq(chars, 1, mid)) \o Str(SubSeq(chars, mid + 1, Len(chars)))

\* chunk_text that moves the window on by chunk_size, without the overlap
ChunkTextNoOverlap(text, chunk_size, overlap) ==
    ChunksFrom(Split(text), 0, chunk_size, chunk_size)

\* chunk_text(text, chunk_size, overlap), for chunk_size > overlap
chunk_text(text, chunk_size, overlap) ==
    ChunksFrom(Split(text), 0, chunk_size, chunk_size - overlap)

----------------------------------------------------------------------------
(* The embedding model and the FAISS index *)

CountChar(text, c) == Cardinality({i \in 1..Len(text) : text[i] = c})

\* embedding_model.encode([text])[0]: a deterministic function of model and text
EncodeText(m, text) ==
    [d |-> ModelDim(m),
     x |-> CASE m = "all-MiniLM-L6-v2"  -> <<CountChar(text, "a"), CountChar(text, "b")>>
             [] m = "all-MiniLM-L12-v2" -> <<CountChar(text, "b"), CountChar(text, "a") + 1>>
             [] OTHER                   -> <<CountChar(text, "a") + CountChar(text, "b"), 2>>]

\* embedding_model.encode(texts, convert_to_numpy=True): one row per text
encode(m, texts) == [i \in 1..Len(texts) |-> EncodeText(m, texts[i])]

\* faiss.IndexFlatL2(dimension)
IndexFlatL2(dimension) == [d |-> dimension, xb |-> <<>>]

\* index.ntotal
ntotal(index) == Len(index.xb)

\* index.add(embeddings): the rows are appended in order
IndexAdd(index, embeddings) ==
    [index EXCEPT !.xb = @ \o [i \in 1..Len(embeddings) |-> embeddings[i].x]]

\* squared Euclidean distance, the metric of IndexFlatL2
RECURSIVE L2Sqr(_, _)
L2Sqr(x, y) ==
    IF x = <<>> THEN 0
    ELSE (x[1] - y[1]) * (x[1] - y[1]) + L2Sqr(Tail(x), Tail(y))

\* the offsets (from 0) of `left`, nearest first; equal distances keep offset order
RECURSIVE Nearest(_, _, _, _)
Nearest(index, q, left, k) ==
    IF k = 0 \/ left = {} THEN <<>>
    ELSE LET best == CHOOSE i \in left : \A j \in left :
                        \/ L2Sqr(index.xb[i + 1], q) < L2Sqr(index.xb[j + 1], q)
                        \/ /\ L2Sqr(index.xb[i + 1], q) = L2Sqr(index.xb[j + 1], q)
                           /\ i <= j
         IN  <<[idx |-> best, dist |-> L2Sqr(index.xb[best + 1], q)]>>
                 \o Nearest(index, q, left \ {best}, k - 1)

\* index.search(query_embedding, k) for 1 <= k <= ntotal: (distance, offset) pairs
IndexSearch(index, q, k) == Nearest(index, q, 0..(ntotal(index) - 1), k)

----------------------------------------------------------------------------
(* The persisted files *)

\* no file at index_path: os.path.exists(index_path) is false
AbsentIndexFile == [state |-> "absent", d |-> 0, ntotal |-> 0, xb |-> <<>>]
\* an Index file whose write stopped part-way: read_index cannot read it
PartialIndexFile == [state |-> "partial", d |-> 0, ntotal |-> 0, xb |-> <<>>]

\* no file at metadata_path
AbsentMetaFile == [state |-> "absent", documents |-> <<>>, model |-> ""]
\* a Metadata file whose write stopped part-way: not a JSON document
PartialMetaFile == [state |-> "partial", documents |-> <<>>, model |-> ""]

\* faiss.write_index(index, path): the header (d, ntotal) and the stored vectors
write_index(index) ==
    [state |-> "intact", d |-> index.d, ntotal |-> ntotal(index), xb |-> index.xb]

\* read_index that stops one vector early
ReadIndexShort(file) ==
    [d |-> file.d,
     xb |-> SubSeq(file.xb, 1, IF file.ntotal > 0 THEN file.ntotal - 1 ELSE 0)]

\* faiss.read_index(path) of an intact file
read_index(file) == [d |-> file.d, xb |-> SubSeq(file.xb, 1, file.ntotal)]

\* json.dump(metadata, f, indent=2)
json_dump(metadata) ==
    [state |-> "intact", documents |-> metadata.documents, model |-> metadata.model]

\* json.load(f) of an intact file
json_load(file) == [documents |-> file.documents, model |-> file.model]

\* where a call of save can fail: opening or writing either file
SaveFaults == {"write_index_open", "write_index_partial",
               "metadata_open", "metadata_partial"}

\* save that writes the Index file and leaves the Metadata file as it was
SaveIndexOnly(index, metadata, iFile, mFile, fault) ==
    IF fault \in {"write_index_open", "write_index_partial"}
    THEN [indexFile |-> IF fault = "write_index_open" THEN iFile ELSE PartialIndexFile,
          metaFile |-> mFile, raised |-> TRUE]
    ELSE [indexFile |-> write_index(index), metaFile |-> mFile, raised |-> FALSE]

\* save that writes the Metadata file first and the Index file second
SaveMetadataFirst(index, metadata, iFile, mFile, fault) ==
    IF fault = "metadata_open"
    THEN [indexFile |-> iFile, metaFile |-> mFile, raised |-> TRUE]
    ELSE IF fault = "metadata_partial"
    THEN [indexFile |-> iFile, metaFile |-> PartialMetaFile, raised |-> TRUE]
    ELSE IF fault = "write_index_open"
    THEN [indexFile |-> iFile, metaFile |-> json_dump(metadata), raised |-> TRUE]
    ELSE IF fault = "write_index_partial"
    THEN [indexFile |-> PartialIndexFile, metaFile |-> json_dump(metadata),
          raised |-> TRUE]
    ELSE [indexFile |-> write_index(index), metaFile |-> json_dump(metadata),
          raised |-> FALSE]

\* save(): the Index file is written first, the Metadata file second; the first
\* failure raises and leaves the rest undone
save(index, metadata, iFile, mFile, fault) ==
    IF fault = "write_index_open"
    THEN [indexFile |-> iFile, metaFile |-> mFile, raised |-> TRUE]
    ELSE IF fault = "write_index_partial"
    THEN [indexFile |-> PartialIndexFile, metaFile |-> mFile, raised |-> TRUE]
    ELSE IF fault = "metadata_open"
    THEN [indexFile |-> write_index(index), metaFile |-> mFile, raised |-> TRUE]
    ELSE IF fault = "metadata_partial"
    THEN [indexFile |-> write_index(index), metaFile |-> PartialMetaFile, raised |-> TRUE]
    ELSE [indexFile |-> write_index(index), metaFile |-> json_dump(metadata),
          raised |-> FALSE]

----------------------------------------------------------------------------
(* The store objects *)

\* a store object that does not exist (yet, or any more)
NoStore ==
    [state |-> "UNINITIALIZED", embedding_model_name |-> "", dimension |-> 0,
     index |-> [d |-> 0, xb |-> <<>>],
     metadata |-> [documents |-> <<>>, model |-> ""]]

\* a constructor call that raised: no object is obtained
FailedStore == [NoStore EXCEPT !.state = "FAILED"]

\* the record of the last call made: who, with what, and how it ended
NoOp ==
    [op |-> "none", store |-> 0, model |-> "", doc |-> "", source |-> "",
     text |-> "", top_k |-> 0, fault |-> "none", rerank_model_name |-> "",
     outcome |-> "returned", error |-> "", index_d |-> 0, model_d |-> 0,
     success |-> FALSE, chunks_added |-> 0, total_documents |-> 0,
     results |-> <<>>, calls |-> <<>>,
     chars |-> <<>>, chunk_size |-> 0, overlap |-> 0, chunks |-> <<>>,
     tool |-> "", arguments |-> <<>>, reply |-> ""]

\* no server process: the store objects are driven by direct calls
NoServer == [phase |-> "down", pending |-> {}, served |-> 0]

Init ==
    /\ stores = [s \in Stores |-> NoStore]
    /\ indexFile = AbsentIndexFile
    /\ metaFile = AbsentMetaFile
    /\ lastOp = NoOp
    /\ faults = 0
    /\ server = NoServer

\* the environment makes the call named by fault fail, within its budget
Inject(fault) ==
    IF fault = "none" THEN UNCHANGED faults
    ELSE faults < MaxFaults /\ faults' = faults + 1

----------------------------------------------------------------------------
(* FAISSVectorStore.__init__ *)

ProbeText == <<"t", "e", "s", "t">>

\* the constructor without its dimension check: whatever Index is there is taken
ConstructUnchecked(m, iFile, mFile, fault) ==
    LET dimension == encode(m, <<ProbeText>>)[1].d
        index == IF iFile.state # "absent" THEN read_index(iFile)
                 ELSE IndexFlatL2(dimension)
        metadata == IF mFile.state # "absent" THEN json_load(mFile)
                    ELSE [documents |-> <<>>, model |-> m]
        raise(e) == [store |-> FailedStore, error |-> e, index_d |-> 0, model_d |-> 0]
    IN  IF fault = "encode" THEN raise("EncodeError")
        ELSE IF iFile.state = "partial" THEN raise("RuntimeError")
        ELSE IF mFile.state = "partial" THEN raise("JSONDecodeError")
        ELSE [store |-> [state |-> "LOADED", embedding_model_name |-> m,
                         dimension |-> dimension, index |-> index,
                         metadata |-> metadata],
              error |-> "", index_d |-> 0, model_d |-> 0]

\* a constructor that answers a dimension mismatch by going on with a new, empty
\* Index of the model's dimension in memory
ConstructOutcomeResetting(m, iFile, mFile, fault) ==
    LET dimension == encode(m, <<ProbeText>>)[1].d
        loaded == IF iFile.state # "absent" THEN read_index(iFile)
                  ELSE IndexFlatL2(dimension)
        index == IF loaded.d # dimension THEN IndexFlatL2(dimension) ELSE loaded
        metadata == IF mFile.state # "absent" THEN json_load(mFile)
                    ELSE [documents |-> <<>>, model |-> m]
        raise(e) == [store |-> FailedStore, error |-> e, index_d |-> 0, model_d |-> 0]
    IN  IF fault = "encode" THEN raise("EncodeError")
        ELSE IF iFile.state = "partial" THEN raise("RuntimeError")
        ELSE IF mFile.state = "partial" THEN raise("JSONDecodeError")
        ELSE [store |-> [state |-> "LOADED", embedding_model_name |-> m,
                         dimension |-> dimension, index |-> index,
                         metadata |-> metadata],
              error |-> IF loaded.d # dimension THEN "ValueError" ELSE "",
              index_d |-> loaded.d, model_d |-> dimension]

\* a constructor that puts the name of its own model into a loaded Metadata log
ConstructOutcomeRenaming(m, iFile, mFile, fault) ==
    LET dimension == encode(m, <<ProbeText>>)[1].d
        index == IF iFile.state # "absent" THEN read_index(iFile)
                 ELSE IndexFlatL2(dimension)
        metadata == IF mFile.state # "absent"
                    THEN [json_load(mFile) EXCEPT !.model = m]
                    ELSE [documents |-> <<>>, model |-> m]
        raise(e) == [store |-> FailedStore, error |-> e,
                     index_d |-> IF e = "ValueError" THEN index.d ELSE 0,
                     model_d |-> IF e = "ValueError" THEN dimension ELSE 0]
    IN  IF fault = "encode" THEN raise("EncodeError")
        ELSE IF iFile.state = "partial" THEN raise("RuntimeError")
        ELSE IF iFile.state # "absent" /\ index.d # dimension THEN raise("ValueError")
        ELSE IF mFile.state = "partial" THEN raise("JSONDecodeError")
        ELSE [store |-> [state |-> "LOADED", embedding_model_name |-> m,
                         dimension |-> dimension, index |-> index,
                         metadata |-> metadata],
              error |-> "", index_d |-> 0, model_d |-> 0]

\* a constructor that takes the dimension of the store from an Index file that it
\* finds, instead of holding the file to the dimension of the model
ConstructOutcomeAdopting(m, iFile, mFile, fault) ==
    LET index == IF iFile.state # "absent" THEN read_index(iFile)
                 ELSE IndexFlatL2(encode(m, <<ProbeText>>)[1].d)
        metadata == IF mFile.state # "absent" THEN json_load(mFile)
                    ELSE [documents |-> <<>>, model |-> m]
        raise(e) == [store |-> FailedStore, error |-> e, index_d |-> 0, model_d |-> 0]
    IN  IF fault = "encode" THEN raise("EncodeError")
        ELSE IF iFile.state = "partial" THEN raise("RuntimeError")
        ELSE IF mFile.state = "partial" THEN raise("JSONDecodeError")
        ELSE [store |-> [state |-> "LOADED", embedding_model_name |-> m,
                         dimension |-> index.d, index |-> index,
                         metadata |-> metadata],
              error |-> "", index_d |-> 0, model_d |-> 0]

\* the outcome of the constructor with model m over the files: the store object,
\* or the error raised
ConstructOutcome(m, iFile, mFile, fault) ==
    LET dimension == encode(m, <<ProbeText>>)[1].d
        index == IF iFile.state # "absent" THEN read_index(iFile)
                 ELSE IndexFlatL2(dimension)
        metadata == IF mFile.state # "absent" THEN json_load(mFile)
                    ELSE [documents |-> <<>>, model |-> m]
        raise(e) == [store |-> FailedStore, error |-> e,
                     index_d |-> IF e = "ValueError" THEN index.d ELSE 0,
                     model_d |-> IF e = "ValueError" THEN dimension ELSE 0]
    IN  IF fault = "encode" THEN raise("EncodeError")
        ELSE IF iFile.state = "partial" THEN raise("RuntimeError")
        ELSE IF iFile.state # "absent" /\ index.d # dimension THEN raise("ValueError")
        ELSE IF mFile.state = "partial" THEN raise("JSONDecodeError")
        ELSE [store |-> [state |-> "LOADED", embedding_model_name |-> m,
                         dimension |-> dimension, index |-> index,
                         metadata |-> metadata],
              error |-> "", index_d |-> 0, model_d |-> 0]

\* a constructor that settles a dimension mismatch by itself: it puts a new, empty
\* Index and Metadata log of the model's dimension in place of the files
ConstructMigrating(s, m, fault) ==
    /\ stores[s].state = "UNINITIALIZED"
    /\ UNCHANGED server
    /\ Inject(fault)
    /\ LET out == ConstructOutcome(m, indexFile, metaFile, fault)
           fresh == [state |-> "LOADED", embedding_model_name |-> m,
                     dimension |-> ModelDim(m), index |-> IndexFlatL2(ModelDim(m)),
                     metadata |-> [documents |-> <<>>, model |-> m]]
       IN  IF out.error = "ValueError"
           THEN /\ stores' = [stores EXCEPT ![s] = FailedStore]
                /\ indexFile' = write_index(fresh.index)
                /\ metaFile' = json_dump(fresh.metadata)
                /\ lastOp' = [NoOp EXCEPT !.op = "construct", !.store = s, !.model = m,
                                 !.fault = fault, !.outcome = "raised",
                                 !.error = out.error,
                                 !.index_d = out.index_d, !.model_d = out.model_d]
           ELSE /\ stores' = [stores EXCEPT ![s] = out.store]
                /\ lastOp' = [NoOp EXCEPT !.op = "construct", !.store = s, !.model = m,
                                 !.fault = fault,
                                 !.outcome = IF out.error = "" THEN "returned" ELSE "raised",
                                 !.error = out.error,
                                 !.index_d = out.index_d, !.model_d = out.model_d]
                /\ UNCHANGED <<indexFile, metaFile>>

Construct(s, m, fault) ==
    /\ stores[s].state = "UNINITIALIZED"
    /\ UNCHANGED server
    /\ Inject(fault)
    /\ LET out == ConstructOutcome(m, indexFile, metaFile, fault)
       IN  /\ stores' = [stores EXCEPT ![s] = out.store]
           /\ lastOp' = [NoOp EXCEPT !.op = "construct", !.store = s, !.model = m,
                            !.fault = fault,
                            !.outcome = IF out.error = "" THEN "returned" ELSE "raised",
                            !.error = out.error,
                            !.index_d = out.index_d, !.model_d = out.model_d]
    /\ UNCHANGED <<indexFile, metaFile>>

\* the parameters of __init__, after self
InitParameters == {"index_path", "metadata_path", "embedding_model_name"}

\* the cross-encoder models that callers name as rerank_model_name
RerankModels == {"cross-encoder/ms-marco-TinyBERT-L-2-v2"}

\* FAISSVectorStore(index_path=..., metadata_path=..., embedding_model_name=m,
\* rerank_model_name=r): __init__ has no parameter of that name, so the call
\* raises TypeError before the body of __init__ runs, and no object is obtained
ConstructReranking(s, m, r) ==
    /\ stores[s].state = "UNINITIALIZED"
    /\ UNCHANGED server
    /\ "rerank_model_name" \notin InitParameters
    /\ stores' = [stores EXCEPT ![s] = FailedStore]
    /\ lastOp' = [NoOp EXCEPT !.op = "construct_reranking", !.store = s, !.model = m,
                     !.rerank_model_name = r, !.outcome = "raised",
                     !.error = "TypeError"]
    /\ UNCHANGED <<indexFile, metaFile, faults>>

\* the store object (or the failed constructor call) is dropped; the files stay
Release(s) ==
    /\ stores[s].state # "UNINITIALIZED"
    /\ UNCHANGED server
    /\ stores' = [stores EXCEPT ![s] = NoStore]
    /\ lastOp' = [NoOp EXCEPT !.op = "release", !.store = s]
    /\ UNCHANGED <<indexFile, metaFile, faults>>

----------------------------------------------------------------------------
(* FAISSVectorStore.save, called on its own *)

Save(s, fault) ==
    /\ stores[s].state = "LOADED"
    /\ UNCHANGED server
    /\ Inject(fault)
    /\ LET out == save(stores[s].index, stores[s].metadata, indexFile, metaFile, fault)
       IN  /\ indexFile' = out.indexFile
           /\ metaFile' = out.metaFile
           /\ lastOp' = [NoOp EXCEPT !.op = "save", !.store = s, !.fault = fault,
                            !.outcome = IF out.raised THEN "raised" ELSE "returned",
                            !.error = IF out.raised THEN "OSError" ELSE "",
                            !.calls = <<"save">>]
    /\ UNCHANGED stores

----------------------------------------------------------------------------
(* FAISSVectorStore.ingest *)

\* AppendRecords with the loop left after its first round: one record per ingest
AppendFirstRecord(documents, chunks, source) ==
    documents \o <<[id |-> Len(documents), source |-> source, text |-> chunks[1]]>>

\* AppendRecords with ids counted from 1: id = start_idx + i + 1
AppendRecordsFromOne(documents, chunks, source) ==
    documents \o [i \in 1..Len(chunks) |->
                     [id |-> Len(documents) + i, source |-> source, text |-> chunks[i]]]

\* the records of the chunks, appended to metadata["documents"]:
\* start_idx = len(documents), then one record per chunk with id start_idx + i
AppendRecords(documents, chunks, source) ==
    LET start_idx == Len(documents)
    IN  documents \o [i \in 1..Len(chunks) |->
                         [id |-> start_idx + (i - 1), source |-> source,
                          text |-> chunks[i]]]

IngestFaults == {"none", "encode"} \cup SaveFaults

\* chunk_text(document), with the default chunk_size and overlap, of each document
DocChunks ==
    [name \in DocNames |-> chunk_text(DocText(name), DefaultChunkSize, DefaultOverlap)]

\* the same chunks, as the strings that the records hold
DocTexts ==
    [name \in DocNames |-> [i \in 1..Len(DocChunks[name]) |-> Str(DocChunks[name][i])]]

\* embedding_model.encode(chunks, convert_to_numpy=True) of each document's chunks
DocEmbeddings ==
    [m \in Models \cup SwitchModels |->
        [name \in DocNames |-> encode(m, DocChunks[name])]]

\* ingest without the test for an empty chunk list: it goes on to save and
\* reports success with no chunk added
IngestOutcomeUnchecked(st, document, source, iFile, mFile, fault) ==
    LET chunks == DocTexts[document]
        embeddings == DocEmbeddings[st.embedding_model_name][document]
        index == IndexAdd(st.index, embeddings)
        metadata == [st.metadata EXCEPT
                        !.documents = AppendRecords(@, chunks, source)]
        saved == save(index, metadata, iFile, mFile, fault)
    IN  IF fault = "encode"
        THEN [store |-> st, indexFile |-> iFile, metaFile |-> mFile,
              outcome |-> "raised", error |-> "EncodeError", success |-> FALSE,
              chunks_added |-> 0, total_documents |-> 0,
              calls |-> <<"chunk_text", "encode">>]
        ELSE [store |-> [st EXCEPT !.index = index, !.metadata = metadata],
              indexFile |-> saved.indexFile, metaFile |-> saved.metaFile,
              outcome |-> IF saved.raised THEN "raised" ELSE "returned",
              error |-> IF saved.raised THEN "OSError" ELSE "",
              success |-> ~saved.raised,
              chunks_added |-> IF saved.raised THEN 0 ELSE Len(chunks),
              total_documents |-> IF saved.raised THEN 0 ELSE Len(metadata.documents),
              calls |-> <<"chunk_text", "encode", "index.add", "save">>]

\* ingest with save wrapped in a handler that passes over its exception
IngestOutcomeSwallowing(st, document, source, iFile, mFile, fault) ==
    LET chunks == DocTexts[document]
        embeddings == DocEmbeddings[st.embedding_model_name][document]
        index == IndexAdd(st.index, embeddings)
        metadata == [st.metadata EXCEPT
                        !.documents = AppendRecords(@, chunks, source)]
        saved == save(index, metadata, iFile, mFile, fault)
        same == [store |-> st, indexFile |-> iFile, metaFile |-> mFile,
                 outcome |-> "returned", error |-> "", success |-> FALSE,
                 chunks_added |-> 0, total_documents |-> 0, calls |-> <<>>]
    IN  IF chunks = <<>>
        THEN [same EXCEPT !.error = "No chunks created from document",
                          !.calls = <<"chunk_text">>]
        ELSE IF fault = "encode"
        THEN [same EXCEPT !.outcome = "raised", !.error = "EncodeError",
                          !.calls = <<"chunk_text", "encode">>]
        ELSE [store |-> [st EXCEPT !.index = index, !.metadata = metadata],
              indexFile |-> saved.indexFile, metaFile |-> saved.metaFile,
              outcome |-> "returned", error |-> "", success |-> TRUE,
              chunks_added |-> Len(chunks),
              total_documents |-> Len(metadata.documents),
              calls |-> <<"chunk_text", "encode", "index.add", "save">>]

\* ingest that reports the size of the Index as total_documents
IngestOutcomeCountingVectors(st, document, source, iFile, mFile, fault) ==
    LET chunks == DocTexts[document]
        embeddings == DocEmbeddings[st.embedding_model_name][document]
        index == IndexAdd(st.index, embeddings)
        metadata == [st.metadata EXCEPT
                        !.documents = AppendRecords(@, chunks, source)]
        saved == save(index, metadata, iFile, mFile, fault)
        same == [store |-> st, indexFile |-> iFile, metaFile |-> mFile,
                 outcome |-> "returned", error |-> "", success |-> FALSE,
                 chunks_added |-> 0, total_documents |-> 0, calls |-> <<>>]
    IN  IF chunks = <<>>
        THEN [same EXCEPT !.error = "No chunks created from document",
                          !.calls = <<"chunk_text">>]
        ELSE IF fault = "encode"
        THEN [same EXCEPT !.outcome = "raised", !.error = "EncodeError",
                          !.calls = <<"chunk_text", "encode">>]
        ELSE IF embeddings[1].d # st.index.d
        THEN [same EXCEPT !.outcome = "raised", !.error = "AssertionError",
                          !.calls = <<"chunk_text", "encode", "index.add">>]
        ELSE [store |-> [st EXCEPT !.index = index, !.metadata = metadata],
              indexFile |-> saved.indexFile, metaFile |-> saved.metaFile,
              outcome |-> IF saved.raised THEN "raised" ELSE "returned",
              error |-> IF saved.raised THEN "OSError" ELSE "",
              success |-> ~saved.raised,
              chunks_added |-> IF saved.raised THEN 0 ELSE Len(chunks),
              total_documents |-> IF saved.raised THEN 0 ELSE ntotal(index),
              calls |-> <<"chunk_text", "encode", "index.add", "save">>]

\* ingest that reads the files again before it adds: it appends to what the files
\* hold instead of what the store holds in memory
IngestOutcomeReloading(st, document, source, iFile, mFile, fault) ==
    LET chunks == DocTexts[document]
        embeddings == DocEmbeddings[st.embedding_model_name][document]
        held == IF iFile.state = "intact" /\ mFile.state = "intact"
                THEN [st EXCEPT !.index = read_index(iFile),
                                !.metadata = json_load(mFile)]
                ELSE st
        index == IndexAdd(held.index, embeddings)
        metadata == [held.metadata EXCEPT
                        !.documents = AppendRecords(@, chunks, source)]
        saved == save(index, metadata, iFile, mFile, fault)
        same == [store |-> st, indexFile |-> iFile, metaFile |-> mFile,
                 outcome |-> "returned", error |-> "", success |-> FALSE,
                 chunks_added |-> 0, total_documents |-> 0, calls |-> <<>>]
    IN  IF chunks = <<>>
        THEN [same EXCEPT !.error = "No chunks created from document",
                          !.calls = <<"chunk_text">>]
        ELSE IF fault = "encode"
        THEN [same EXCEPT !.outcome = "raised", !.error = "EncodeError",
                          !.calls = <<"chunk_text", "encode">>]
        ELSE IF embeddings[1].d # held.index.d
        THEN [same EXCEPT !.outcome = "raised", !.error = "AssertionError",
                          !.calls = <<"chunk_text", "encode", "index.add">>]
        ELSE [store |-> [st EXCEPT !.index = index, !.metadata = metadata],
              indexFile |-> saved.indexFile, metaFile |-> saved.metaFile,
              outcome |-> IF saved.raised THEN "raised" ELSE "returned",
              error |-> IF saved.raised THEN "OSError" ELSE "",
              success |-> ~saved.raised,
              chunks_added |-> IF saved.raised THEN 0 ELSE Len(chunks),
              total_documents |-> IF saved.raised THEN 0 ELSE Len(metadata.documents),
              calls |-> <<"chunk_text", "encode", "index.add", "save">>]

\* ingest(document, source) on store st over the files, document given by name;
\* fault names the call that fails, if it is reached
IngestOutcome(st, document, source, iFile, mFile, fault) ==
    LET chunks == DocTexts[document]
        embeddings == DocEmbeddings[st.embedding_model_name][document]
        index == IndexAdd(st.index, embeddings)
        metadata == [st.metadata EXCEPT
                        !.documents = AppendRecords(@, chunks, source)]
        saved == save(index, metadata, iFile, mFile, fault)
        same == [store |-> st, indexFile |-> iFile, metaFile |-> mFile,
                 outcome |-> "returned", error |-> "", success |-> FALSE,
                 chunks_added |-> 0, total_documents |-> 0, calls |-> <<>>]
    IN  IF chunks = <<>>
        THEN [same EXCEPT !.error = "No chunks created from document",
                          !.calls = <<"chunk_text">>]
        ELSE IF fault = "encode"
        THEN [same EXCEPT !.outcome = "raised", !.error = "EncodeError",
                          !.calls = <<"chunk_text", "encode">>]
        ELSE IF embeddings[1].d # st.index.d
        THEN [same EXCEPT !.outcome = "raised", !.error = "AssertionError",
                          !.calls = <<"chunk_text", "encode", "index.add">>]
        ELSE [store |-> [st EXCEPT !.index = index, !.metadata = metadata],
              indexFile |-> saved.indexFile, metaFile |-> saved.metaFile,
              outcome |-> IF saved.raised THEN "raised" ELSE "returned",
              error |-> IF saved.raised THEN "OSError" ELSE "",
              success |-> ~saved.raised,
              chunks_added |-> IF saved.raised THEN 0 ELSE Len(chunks),
              total_documents |-> IF saved.raised THEN 0 ELSE Len(metadata.documents),
              calls |-> <<"chunk_text", "encode", "index.add", "save">>]

Ingest(s, inp, fault) ==
    /\ stores[s].state = "LOADED"
    /\ UNCHANGED server
    /\ Inject(fault)
    /\ LET out == IngestOutcome(stores[s], inp.doc, inp.source,
                                indexFile, metaFile, fault)
       IN  /\ ntotal(out.store.index) <= MaxVectors
           /\ stores' = [stores EXCEPT ![s] = out.store]
           /\ indexFile' = out.indexFile
           /\ metaFile' = out.metaFile
           /\ lastOp' = [NoOp EXCEPT !.op = "ingest", !.store = s, !.doc = inp.doc,
                            !.source = inp.source, !.fault = fault,
                            !.outcome = out.outcome, !.error = out.error,
                            !.success = out.success,
                            !.chunks_added = out.chunks_added,
                            !.total_documents = out.total_documents,
                            !.calls = out.calls]

----------------------------------------------------------------------------
(* FAISSVectorStore.query *)

Min(a, b) == IF a < b THEN a ELSE b

\* the loop with the record looked up by the neighbour's rank instead of its offset
RetrieveByRank(neighbours, documents) ==
    [i \in 1..Min(Len(neighbours), Len(documents)) |->
        [text |-> documents[i].text, source |-> documents[i].source,
         distance |-> neighbours[i].dist]]

\* the loop without its test, the offset of a neighbour taken modulo the length
\* of the log
RetrieveWrapping(neighbours, documents) ==
    IF documents = <<>> THEN <<>>
    ELSE [i \in 1..Len(neighbours) |->
            LET rec == documents[(neighbours[i].idx % Len(documents)) + 1]
            IN  [text |-> rec.text, source |-> rec.source,
                 distance |-> neighbours[i].dist]]

\* the loop over zip(distances[0], indices[0]): a neighbour whose offset is below
\* len(documents) gives a result, any other is passed over
RECURSIVE Retrieve(_, _)
Retrieve(neighbours, documents) ==
    IF neighbours = <<>> THEN <<>>
    ELSE LET n == Head(neighbours)
         IN  (IF n.idx < Len(documents)
              THEN <<[text |-> documents[n.idx + 1].text,
                      source |-> documents[n.idx + 1].source,
                      distance |-> n.dist]>>
              ELSE <<>>) \o Retrieve(Tail(neighbours), documents)

\* query that asks the Index for one neighbour fewer than the clamp allows
QueryOutcomeOffByOne(st, query_text, top_k, fault) ==
    IF ntotal(st.index) = 0
    THEN [outcome |-> "returned", error |-> "", results |-> <<>>, calls |-> <<>>]
    ELSE IF fault = "encode"
    THEN [outcome |-> "raised", error |-> "EncodeError", results |-> <<>>,
          calls |-> <<"encode">>]
    ELSE LET query_embedding == encode(st.embedding_model_name, <<query_text>>)[1]
             neighbours == IndexSearch(st.index, query_embedding.x,
                                       Min(top_k, ntotal(st.index) - 1))
         IN  [outcome |-> "returned", error |-> "",
              results |-> Retrieve(neighbours, st.metadata.documents),
              calls |-> <<"encode", "index.search">>]

\* query that embeds the query text before it looks at the size of the Index
QueryOutcomeEncodeFirst(st, query_text, top_k, fault) ==
    IF fault = "encode"
    THEN [outcome |-> "raised", error |-> "EncodeError", results |-> <<>>,
          calls |-> <<"encode">>]
    ELSE IF ntotal(st.index) = 0
    THEN [outcome |-> "returned", error |-> "", results |-> <<>>,
          calls |-> <<"encode">>]
    ELSE LET query_embedding == encode(st.embedding_model_name, <<query_text>>)[1]
             neighbours == IndexSearch(st.index, query_embedding.x,
                                       Min(top_k, ntotal(st.index)))
         IN  [outcome |-> "returned", error |-> "",
              results |-> Retrieve(neighbours, st.metadata.documents),
              calls |-> <<"encode", "index.search">>]

\* query(query_text, top_k) on store st, for top_k >= 1; fault names the call that
\* fails, if it is reached
QueryOutcome(st, query_text, top_k, fault) ==
    IF ntotal(st.index) = 0
    THEN [outcome |-> "returned", error |-> "", results |-> <<>>, calls |-> <<>>]
    ELSE IF fault = "encode"
    THEN [outcome |-> "raised", error |-> "EncodeError", results |-> <<>>,
          calls |-> <<"encode">>]
    ELSE LET query_embedding == encode(st.embedding_model_name, <<query_text>>)[1]
             neighbours == IndexSearch(st.index, query_embedding.x,
                                       Min(top_k, ntotal(st.index)))
         IN  [outcome |-> "returned", error |-> "",
              results |-> Retrieve(neighbours, st.metadata.documents),
              calls |-> <<"encode", "index.search">>]

\* query that persists the store at its end, as ingest does
QuerySaving(s, q, fault) ==
    /\ stores[s].state = "LOADED"
    /\ UNCHANGED server
    /\ Inject(fault)
    /\ LET out == QueryOutcome(stores[s], q.text, q.top_k, fault)
       IN  /\ lastOp' = [NoOp EXCEPT !.op = "query", !.store = s, !.text = Str(q.text),
                            !.top_k = q.top_k, !.fault = fault,
                            !.outcome = out.outcome, !.error = out.error,
                            !.results = out.results,
                            !.calls = IF out.outcome = "returned"
                                      THEN out.calls \o <<"save">> ELSE out.calls]
           /\ indexFile' = IF out.outcome = "returned"
                           THEN write_index(stores[s].index) ELSE indexFile
           /\ metaFile' = IF out.outcome = "returned"
                          THEN json_dump(stores[s].metadata) ELSE metaFile
    /\ UNCHANGED stores

\* query that leaves the vector of the query text behind in the Index
QueryRemembering(s, q, fault) ==
    /\ stores[s].state = "LOADED"
    /\ UNCHANGED server
    /\ Inject(fault)
    /\ LET out == QueryOutcome(stores[s], q.text, q.top_k, fault)
           query_embedding == encode(stores[s].embedding_model_name, <<q.text>>)
       IN  /\ lastOp' = [NoOp EXCEPT !.op = "query", !.store = s, !.text = Str(q.text),
                            !.top_k = q.top_k, !.fault = fault,
                            !.outcome = out.outcome, !.error = out.error,
                            !.results = out.results, !.calls = out.calls]
           /\ stores' = IF out.calls = <<>> \/ ntotal(stores[s].index) >= MaxVectors
                         THEN stores
                         ELSE [stores EXCEPT
                                 ![s].index = IndexAdd(@, query_embedding)]
    /\ UNCHANGED <<indexFile, metaFile>>

Query(s, q, fault) ==
    /\ stores[s].state = "LOADED"
    /\ UNCHANGED server
    /\ Inject(fault)
    /\ LET out == QueryOutcome(stores[s], q.text, q.top_k, fault)
       IN  lastOp' = [NoOp EXCEPT !.op = "query", !.store = s, !.text = Str(q.text),
                         !.top_k = q.top_k, !.fault = fault,
                         !.outcome = out.outcome, !.error = out.error,
                         !.results = out.results, !.calls = out.calls]
    /\ UNCHANGED <<stores, indexFile, metaFile>>

----------------------------------------------------------------------------
(* The specification *)

Next ==
    \/ \E s \in Stores, m \in Models, fault \in {"none", "encode"} : Construct(s, m, fault)
    \/ \E s \in Stores, m \in Models, r \in RerankModels : ConstructReranking(s, m, r)
    \/ \E s \in Stores : Release(s)
    \/ \E s \in Stores, fault \in {"none"} \cup SaveFaults : Save(s, fault)
    \/ \E s \in Stores, inp \in IngestInputs, fault \in IngestFaults : Ingest(s, inp, fault)
    \/ \E s \in Stores, q \in QueryInputs, fault \in {"none", "encode"} : Query(s, q, fault)

Spec == Init /\ [][Next]_vars

----------------------------------------------------------------------------
(* Stores that are created with one model and loaded with another of the same
   width *)

ModelNext ==
    \/ \E s \in Stores, m \in SwitchModels : Construct(s, m, "none")
    \/ \E s \in Stores : Release(s)
    \/ \E s \in Stores, inp \in IngestInputs, fault \in {"none", "metadata_open"} :
          Ingest(s, inp, fault)

ModelSpec == Init /\ [][ModelNext]_vars

----------------------------------------------------------------------------
(* Two store objects over the same files *)

\* the store objects A and B, constructed with the same index_path and
\* metadata_path
Instances == {1, 2}

TwoInit ==
    /\ stores = [s \in Instances |-> NoStore]
    /\ indexFile = AbsentIndexFile
    /\ metaFile = AbsentMetaFile
    /\ lastOp = NoOp
    /\ faults = 0
    /\ server = NoServer

TwoNext ==
    \/ \E s \in Instances : Construct(s, "all-MiniLM-L6-v2", "none")
    \/ \E s \in Instances : Release(s)
    \/ \E s \in Instances, inp \in IngestInputs : Ingest(s, inp, "none")

TwoSpec == TwoInit /\ [][TwoNext]_vars

----------------------------------------------------------------------------
(* The server process: main, the shared store vector_store, and call_tool *)

\* the global vector_store: None until main has constructed the store
TheStore == 1

\* the files that a store with model m leaves when its first ingest ends as the
\* fault says
FilesSavedBy(m, doc, source, fault) ==
    LET created == ConstructOutcome(m, AbsentIndexFile, AbsentMetaFile, "none").store
        out == IngestOutcome(created, doc, source, AbsentIndexFile, AbsentMetaFile, fault)
    IN  <<out.indexFile, out.metaFile>>

\* what the server finds in --index-dir at start: nothing, the files of an
\* earlier run with either model, or an Index file without its Metadata file
PersistedFiles ==
    { <<AbsentIndexFile, AbsentMetaFile>>,
      FilesSavedBy("all-MiniLM-L6-v2", "short", "unknown", "none"),
      FilesSavedBy("all-mpnet-base-v2", "short", "unknown", "none"),
      FilesSavedBy("all-MiniLM-L6-v2", "short", "unknown", "metadata_open") }

\* the tool calls that clients send: name and arguments
ToolCalls ==
    { [name |-> "ingest_document", arguments |-> [document |-> "short"]],
      [name |-> "ingest_document",
       arguments |-> [document |-> "blank", source |-> "blank.txt"]],
      [name |-> "ingest_document",
       arguments |-> [document |-> "long", source |-> "doc1.txt"]],
      [name |-> "query_rag_store", arguments |-> [query |-> <<"a">>]],
      [name |-> "query_rag_store",
       arguments |-> [query |-> <<"b", " ", "a">>, top_k |-> 1]],
      [name |-> "delete_document", arguments |-> [document |-> "short"]] }

\* arguments.get(key, default)
ArgGet(arguments, key, default) ==
    IF key \in DOMAIN arguments THEN arguments[key] ELSE default

\* the chunks of the documents, and the first 200 characters of each: text[:200]
ChunkIds == { c \in DocNames \X (1..MaxVectors) : c[2] <= Len(DocChunks[c[1]]) }

First200 ==
    [c \in ChunkIds |->
        Str(SubSeq(DocChunks[c[1]][c[2]], 1, Min(200, Len(DocChunks[c[1]][c[2]]))))]

TextPrefix(text) == First200[CHOOSE c \in ChunkIds : DocTexts[c[1]][c[2]] = text]

\* f"{distance:.4f}" of a distance that is a whole number
Fixed4(distance) == ToString(distance) \o ".0000"

\* the message of a successful ingest
IngestedText(source, chunks_added, total_documents) ==
    "Successfully ingested document from '" \o source \o "'.\n"
        \o "Created " \o ToString(chunks_added) \o " chunks.\n"
        \o "Total documents in store: " \o ToString(total_documents)

\* the lines of the results from the i-th on
RECURSIVE ResultLines(_, _)
ResultLines(results, i) ==
    IF i > Len(results) THEN ""
    ELSE ToString(i) \o ". Source: " \o results[i].source \o "\n"
            \o "   Distance: " \o Fixed4(results[i].distance) \o "\n"
            \o "   Text: " \o TextPrefix(results[i].text) \o "...\n\n"
            \o ResultLines(results, i + 1)

\* the message of a query
QueryText(results) ==
    IF results = <<>> THEN "No results found. The vector store may be empty."
    ELSE "Found " \o ToString(Len(results)) \o " relevant chunks:\n\n"
            \o ResultLines(results, 1)

ServerInit ==
    /\ stores = [s \in Stores |-> NoStore]
    /\ \E files \in PersistedFiles : indexFile = files[1] /\ metaFile = files[2]
    /\ lastOp = NoOp
    /\ faults = 0
    /\ server = [phase |-> "starting", pending |-> {}, served |-> 0]

\* a main that goes on to app.run when the constructor has raised
MainIgnoringFailure(m) ==
    /\ server.phase = "starting"
    /\ LET out == ConstructOutcome(m, indexFile, metaFile, "none")
       IN  /\ stores' = [stores EXCEPT ![TheStore] = out.store]
           /\ lastOp' = [NoOp EXCEPT !.op = "main", !.store = TheStore, !.model = m,
                            !.outcome = IF out.error = "" THEN "returned" ELSE "raised",
                            !.error = out.error,
                            !.index_d = out.index_d, !.model_d = out.model_d]
           /\ server' = [server EXCEPT !.phase = "serving"]
    /\ UNCHANGED <<indexFile, metaFile, faults>>

\* main(): vector_store = FAISSVectorStore(..., embedding_model_name=args.embed),
\* then app.run; an exception of the constructor ends main before app.run
Main(m) ==
    /\ server.phase = "starting"
    /\ LET out == ConstructOutcome(m, indexFile, metaFile, "none")
       IN  /\ stores' = [stores EXCEPT ![TheStore] = out.store]
           /\ lastOp' = [NoOp EXCEPT !.op = "main", !.store = TheStore, !.model = m,
                            !.outcome = IF out.error = "" THEN "returned" ELSE "raised",
                            !.error = out.error,
                            !.index_d = out.index_d, !.model_d = out.model_d]
           /\ server' = [server EXCEPT
                            !.phase = IF out.error = "" THEN "serving" ELSE "exited"]
    /\ UNCHANGED <<indexFile, metaFile, faults>>

\* app.run takes a tool call from the client; its handler has not started yet
Accept(call) ==
    /\ server.phase = "serving"
    /\ server.served + Cardinality(server.pending) < MaxCalls
    /\ \A c \in server.pending : c.name # call.name \/ c.arguments # call.arguments
    /\ server' = [server EXCEPT
                     !.pending = @ \cup {[name |-> call.name,
                                           arguments |-> call.arguments,
                                           pc |-> "start"]}]
    /\ UNCHANGED <<stores, indexFile, metaFile, lastOp, faults>>

\* the branch for ingest_document without the test of result["success"]: the
\* message of a successful ingest is built from whatever the result holds
IngestDocumentUntested(same, document, source, result) ==
    [same EXCEPT
        !.store = result.store, !.indexFile = result.indexFile,
        !.metaFile = result.metaFile, !.outcome = result.outcome,
        !.error = result.error, !.doc = document, !.source = source,
        !.success = result.success,
        !.chunks_added = result.chunks_added,
        !.total_documents = result.total_documents,
        !.calls = result.calls,
        !.reply = IF result.outcome = "raised" THEN ""
                  ELSE IngestedText(source, result.chunks_added,
                                    result.total_documents)]

\* the branch of call_tool for ingest_document, given the result of
\* vector_store.ingest(document, source)
IngestDocument(same, document, source, result) ==
    [same EXCEPT
        !.store = result.store, !.indexFile = result.indexFile,
        !.metaFile = result.metaFile, !.outcome = result.outcome,
        !.error = result.error, !.doc = document, !.source = source,
        !.success = result.success,
        !.chunks_added = result.chunks_added,
        !.total_documents = result.total_documents,
        !.calls = result.calls,
        !.reply = IF result.outcome = "raised" THEN ""
                  ELSE IF result.success
                  THEN IngestedText(source, result.chunks_added,
                                    result.total_documents)
                  ELSE "Failed to ingest document: " \o result.error]

\* the branch of call_tool for query_rag_store, given the result of
\* vector_store.query(query, top_k)
QueryRagStore(same, query, top_k, result) ==
    [same EXCEPT
        !.outcome = result.outcome, !.error = result.error,
        !.text = Str(query), !.top_k = top_k,
        !.results = result.results, !.calls = result.calls,
        !.reply = IF result.outcome = "raised" THEN ""
                  ELSE QueryText(result.results)]

\* a call_tool that touches neither the store nor the files and returns nothing
NoCall(st, iFile, mFile) ==
    [store |-> st, indexFile |-> iFile, metaFile |-> mFile,
     outcome |-> "returned", error |-> "", reply |-> "",
     doc |-> "", source |-> "", text |-> "", top_k |-> 0,
     success |-> FALSE, chunks_added |-> 0, total_documents |-> 0,
     results |-> <<>>, calls |-> <<>>]

\* call_tool(name, arguments) with vector_store = st: what it does to the store
\* and the files, and the text it returns
CallToolOutcome(st, name, arguments, iFile, mFile, fault) ==
    IF name \in {"ingest_document", "query_rag_store"} /\ st.state # "LOADED"
    THEN [NoCall(st, iFile, mFile) EXCEPT
            !.outcome = "raised", !.error = "AttributeError"]
    ELSE IF name = "ingest_document"
    THEN IngestDocument(NoCall(st, iFile, mFile),
                        ArgGet(arguments, "document", "None"),
                        ArgGet(arguments, "source", "unknown"),
                        IngestOutcome(st, ArgGet(arguments, "document", "None"),
                                      ArgGet(arguments, "source", "unknown"),
                                      iFile, mFile, fault))
    ELSE IF name = "query_rag_store"
    THEN QueryRagStore(NoCall(st, iFile, mFile),
                       ArgGet(arguments, "query", "None"),
                       ArgGet(arguments, "top_k", DefaultTopK),
                       QueryOutcome(st, ArgGet(arguments, "query", "None"),
                                    ArgGet(arguments, "top_k", DefaultTopK), fault))
    ELSE [NoCall(st, iFile, mFile) EXCEPT !.reply = "Unknown tool: " \o name]

\* the faults that can strike a tool call
ToolFaults(name) ==
    IF name = "ingest_document" THEN {"none", "metadata_open"} ELSE {"none"}

\* what a finished call_tool leaves: the store, the files and the record of the call
Returned(c, fault, out) ==
    /\ ntotal(out.store.index) <= MaxVectors
    /\ stores' = [stores EXCEPT ![TheStore] = out.store]
    /\ indexFile' = out.indexFile
    /\ metaFile' = out.metaFile
    /\ lastOp' = [NoOp EXCEPT
                     !.op = "call_tool", !.store = TheStore, !.tool = c.name,
                     !.arguments = c.arguments, !.fault = fault,
                     !.doc = out.doc, !.source = out.source,
                     !.text = out.text, !.top_k = out.top_k,
                     !.outcome = out.outcome, !.error = out.error,
                     !.success = out.success,
                     !.chunks_added = out.chunks_added,
                     !.total_documents = out.total_documents,
                     !.results = out.results, !.calls = out.calls,
                     !.reply = out.reply]

\* a handler of ingest_document that awaits between reading the store and
\* updating it, so that other handlers run while it is suspended
CallToolSuspending(c, fault) ==
    /\ server.phase = "serving"
    /\ c \in server.pending
    /\ Inject(fault)
    /\ IF c.name = "ingest_document" /\ c.pc = "start"
       THEN /\ server' = [server EXCEPT
                            !.pending = (@ \ {c}) \cup {[c EXCEPT !.pc = "awaiting"]}]
            /\ UNCHANGED <<stores, indexFile, metaFile, lastOp>>
       ELSE /\ Returned(c, fault,
                        CallToolOutcome(stores[TheStore], c.name, c.arguments,
                                        indexFile, metaFile, fault))
            /\ server' = [server EXCEPT !.pending = @ \ {c}, !.served = @ + 1]

\* the handler of a pending tool call runs, from its start to its return
CallTool(c, fault) ==
    /\ server.phase = "serving"
    /\ c \in server.pending
    /\ c.pc = "start"
    /\ Inject(fault)
    /\ Returned(c, fault, CallToolOutcome(stores[TheStore], c.name, c.arguments,
                                          indexFile, metaFile, fault))
    /\ server' = [server EXCEPT !.pending = @ \ {c}, !.served = @ + 1]

ServerNext ==
    \/ \E m \in Models : Main(m)
    \/ \E call \in ToolCalls : Accept(call)
    \/ \E c \in server.pending : \E fault \in ToolFaults(c.name) : CallTool(c, fault)

ServerSpec == ServerInit /\ [][ServerNext]_vars

----------------------------------------------------------------------------
(* chunk_text, called on its own with any text, chunk size and overlap *)

\* the characters of the texts: two letters and the two kinds of whitespace
TextChars == {"a", "b"} \cup Whitespace

\* the texts of at most MaxTextLen characters
Texts == UNION { [1..n -> TextChars] : n \in 0..MaxTextLen }

\* the arguments of a call store.chunk_text(text, chunk_size, overlap) with
\* 0 <= overlap < chunk_size
ChunkCalls ==
    { [NoOp EXCEPT !.op = "call chunk_text", !.chars = c[1],
                   !.chunk_size = c[2], !.overlap = c[3]] :
        c \in { d \in Texts \X (1..MaxChunkSize) \X (0..(MaxChunkSize - 1)) :
                  d[3] < d[2] } }

\* a call of chunk_text is about to be made
ChunkInit ==
    /\ stores = [s \in Stores |-> NoStore]
    /\ indexFile = AbsentIndexFile
    /\ metaFile = AbsentMetaFile
    /\ lastOp \in ChunkCalls
    /\ faults = 0
    /\ server = NoServer

\* the call returns its chunks
ChunkText ==
    /\ lastOp.op = "call chunk_text"
    /\ UNCHANGED server
    /\ lastOp' = [lastOp EXCEPT !.op = "chunk_text",
                     !.chunks = chunk_text(lastOp.chars, lastOp.chunk_size,
                                           lastOp.overlap),
                     !.calls = <<"chunk_text">>]
    /\ UNCHANGED <<stores, indexFile, metaFile, faults>>

ChunkNext == ChunkText

ChunkSpec == ChunkInit /\ [][ChunkNext]_vars

----------------------------------------------------------------------------
(* Vocabulary of the properties *)

\* the store that the last call was made on
Last == stores[lastOp.store]

\* the store that the call of this step is made on, before and after the call
Pre == stores[lastOp'.store]
Post == stores'[lastOp'.store]

\* the Index holds as many vectors as the Metadata log holds records
Aligned(st) == ntotal(st.index) = Len(st.metadata.documents)

\* the entries that a constructor call finds in each file, a missing file having none
IndexFileLen == IF indexFile.state = "intact" THEN indexFile.ntotal ELSE 0
MetaFileLen == IF metaFile.state = "intact" THEN Len(metaFile.documents) ELSE 0

\* the (chunk text, vector) pairs that the embedding models give
TextVectors ==
    { <<DocTexts[c[2]][c[3]], DocEmbeddings[c[1]][c[2]][c[3]].x>> :
        c \in { d \in Models \X DocNames \X (1..MaxVectors) : d[3] <= Len(DocTexts[d[2]]) } }

\* every record's id is its offset in the log
IdsAreOffsets(documents) == \A i \in 1..Len(documents) : documents[i].id = i - 1

\* every record's id is its offset in the log and the offset in the Index of a
\* vector embedded from its text
RecordsAtTheirVectors(index, documents) ==
    \A i \in 1..Len(documents) :
        /\ documents[i].id = i - 1
        /\ documents[i].id < ntotal(index)
        /\ <<documents[i].text, index.xb[documents[i].id + 1]>> \in TextVectors

\* the same, and the Index holds no vector without a record
PositionallyAligned(index, documents) ==
    /\ ntotal(index) = Len(documents)
    /\ RecordsAtTheirVectors(index, documents)

IsPrefix(p, q) == Len(p) <= Len(q) /\ SubSeq(q, 1, Len(p)) = p

----------------------------------------------------------------------------
(* C1 *)

\* C1 as stated: after every ingest call, successful or failed, on any store that
\* was constructed successfully, the Index holds as many vectors as the Metadata
\* log holds records.
C1_AlignmentAfterIngest ==
    lastOp.op = "ingest" => Aligned(Last)

\* C1 as amended: a store created empty, or constructed over an Index file and a
\* Metadata file that hold equally many entries, has as many vectors as records,
\* and every ingest call on such a store, successful or failed, keeps the two
\* numbers equal.
C1_AlignmentPreserved ==
    [][ /\ ( /\ lastOp'.op = "construct"
             /\ lastOp'.outcome = "returned"
             /\ IndexFileLen = MetaFileLen ) => Aligned(Post)
        /\ ( lastOp'.op = "ingest" /\ Aligned(Pre) ) => Aligned(Post) ]_vars

\* a failed ingest after a successful one, on a store that holds several chunks
C1_Witness ==
    /\ lastOp.op = "ingest"
    /\ lastOp.outcome = "raised"
    /\ Aligned(Last)
    /\ ntotal(Last.index) >= 2

----------------------------------------------------------------------------
(* C2 *)

\* C2 as stated: in every reachable state every record's id equals its offset in
\* the Metadata log and the offset in the Index of the vector embedded from its
\* text.
C2_PositionalAlignment ==
    \A s \in Stores :
        stores[s].state = "LOADED" =>
            RecordsAtTheirVectors(stores[s].index, stores[s].metadata.documents)

\* C2 as amended: in every reachable state every record's id equals its offset in
\* the Metadata log; a store created empty, or constructed over files in which
\* Index and log are equally long and every record's id is the Index offset of the
\* vector embedded from its text, has that property, and every ingest keeps it;
\* each ingest that adds chunks gives the new records the ids (log length before)
\* .. (log length before + number of chunks - 1), in chunk order.
C2_PositionsPreserved ==
    /\ [](\A s \in Stores : IdsAreOffsets(stores[s].metadata.documents))
    /\ [][ /\ ( /\ lastOp'.op = "construct"
                /\ lastOp'.outcome = "returned"
                /\ PositionallyAligned(read_index(indexFile), metaFile.documents) )
              => PositionallyAligned(Post.index, Post.metadata.documents)
           /\ ( /\ lastOp'.op = "ingest"
                /\ PositionallyAligned(Pre.index, Pre.metadata.documents) )
              => PositionallyAligned(Post.index, Post.metadata.documents)
           /\ ( /\ lastOp'.op = "ingest"
                /\ Post.metadata # Pre.metadata )
              => LET start == Len(Pre.metadata.documents)
                     chunks == DocTexts[lastOp'.doc]
                 IN  /\ Len(Post.metadata.documents) = start + Len(chunks)
                     /\ \A i \in 1..Len(chunks) :
                          /\ Post.metadata.documents[start + i].id = start + i - 1
                          /\ Post.metadata.documents[start + i].text = chunks[i]
                          /\ Post.metadata.documents[start + i].source = lastOp'.source
         ]_vars

\* a document of two chunks ingested after another document
C2_Witness ==
    /\ lastOp.op = "ingest"
    /\ lastOp.success
    /\ lastOp.doc = "long"
    /\ lastOp.total_documents = 3
    /\ PositionallyAligned(Last.index, Last.metadata.documents)

----------------------------------------------------------------------------
(* C3 *)

\* C3: whenever ingest returns a success result, the Index file and the Metadata
\* file hold exactly the in-memory Index and Metadata log of that moment, and a
\* store constructed from those files right then has the same number of vectors
\* and the same Metadata log.
C3_PersistBeforeReturn ==
    (lastOp.op = "ingest" /\ lastOp.success) =>
        /\ indexFile.state = "intact"
        /\ read_index(indexFile) = Last.index
        /\ metaFile.state = "intact"
        /\ json_load(metaFile) = Last.metadata
        /\ \A m \in Models :
             ModelDim(m) = Last.dimension =>
                LET reloaded == ConstructOutcome(m, indexFile, metaFile, "none").store
                IN  /\ reloaded.state = "LOADED"
                    /\ ntotal(reloaded.index) = ntotal(Last.index)
                    /\ reloaded.metadata = Last.metadata

\* a successful ingest of two chunks into a store that held one
C3_Witness ==
    /\ lastOp.op = "ingest"
    /\ lastOp.success
    /\ lastOp.chunks_added = 2
    /\ lastOp.total_documents = 3
    /\ indexFile.ntotal = 3

----------------------------------------------------------------------------
(* C4 *)

\* C4: after save on a populated store, a store constructed over the same files
\* with the same embedding model answers every query, for every top_k, with the
\* same result sequence as the store that was saved.
C4_SaveLoadRoundTrip ==
    ( /\ lastOp.op = "save"
      /\ lastOp.outcome = "returned"
      /\ ntotal(Last.index) > 0 ) =>
        LET reloaded == ConstructOutcome(Last.embedding_model_name,
                                         indexFile, metaFile, "none").store
        IN  /\ reloaded.state = "LOADED"
            /\ \A text \in QueryTexts, k \in TopKs :
                 QueryOutcome(reloaded, text, k, "none")
                     = QueryOutcome(Last, text, k, "none")

\* a save of a store whose queries return several results
C4_Witness ==
    /\ lastOp.op = "save"
    /\ lastOp.outcome = "returned"
    /\ ntotal(Last.index) >= 2
    /\ \E text \in QueryTexts :
         Len(QueryOutcome(Last, text, DefaultTopK, "none").results) >= 2

----------------------------------------------------------------------------
(* C5 *)

\* C5: a constructor call that finds an Index file of another dimension than the
\* embedding model's raises ValueError, the error names both the dimension of the
\* Index and that of the model, and no store object is obtained.
C5_DimensionMismatch ==
    ( /\ lastOp.op = "construct"
      /\ lastOp.fault = "none"
      /\ indexFile.state = "intact"
      /\ indexFile.d # ModelDim(lastOp.model) ) =>
        /\ lastOp.outcome = "raised"
        /\ lastOp.error = "ValueError"
        /\ lastOp.index_d = indexFile.d
        /\ lastOp.model_d = ModelDim(lastOp.model)
        /\ Last.state = "FAILED"

\* the 768-wide model over a populated Index of dimension 384
C5_Witness ==
    /\ lastOp.op = "construct"
    /\ lastOp.error = "ValueError"
    /\ lastOp.index_d = 384
    /\ lastOp.model_d = 768
    /\ indexFile.ntotal >= 1

----------------------------------------------------------------------------
(* C6 *)

\* C6: a constructor call that fails on a dimension mismatch leaves the Index file
\* and the Metadata file as they were, and a constructor call with a model of the
\* Index's dimension still loads what the files held.
C6_MismatchLeavesFiles ==
    [][ ( lastOp'.op = "construct" /\ lastOp'.error = "ValueError" ) =>
          /\ indexFile' = indexFile
          /\ metaFile' = metaFile
          /\ \A m \in Models :
               ( ModelDim(m) = indexFile.d /\ metaFile.state # "partial" ) =>
                  LET again == ConstructOutcome(m, indexFile', metaFile', "none").store
                  IN  /\ again.state = "LOADED"
                      /\ again.index = read_index(indexFile)
                      /\ again.metadata.documents = metaFile.documents
      ]_vars

\* a failed constructor call over files that hold a document
C6_Witness ==
    /\ lastOp.op = "construct"
    /\ lastOp.error = "ValueError"
    /\ indexFile.ntotal >= 1
    /\ Len(metaFile.documents) >= 1

----------------------------------------------------------------------------
(* C7 *)

\* C7: ingest of an empty or whitespace-only document returns the structured
\* failure {success: false, error}; the in-memory Index and Metadata log and both
\* files stay as they were, and neither the embedding model nor save is called.
C7_EmptyInputIngest ==
    [][ ( lastOp'.op = "ingest" /\ lastOp'.doc \in {"empty", "blank"} ) =>
          /\ lastOp'.outcome = "returned"
          /\ ~lastOp'.success
          /\ lastOp'.error = "No chunks created from document"
          /\ stores' = stores
          /\ indexFile' = indexFile
          /\ metaFile' = metaFile
          /\ \A i \in 1..Len(lastOp'.calls) : lastOp'.calls[i] \notin {"encode", "save"}
      ]_vars

\* a whitespace-only document given to a populated store while the embedding
\* model is failing
C7_Witness ==
    /\ lastOp.op = "ingest"
    /\ lastOp.doc = "blank"
    /\ lastOp.fault = "encode"
    /\ ~lastOp.success
    /\ ntotal(Last.index) >= 1

----------------------------------------------------------------------------
(* C8 *)

\* C8 as stated: an ingest call that raised (embedding failure or persistence
\* failure in save) leaves the in-memory Index and Metadata log as they were before
\* the call.
C8_AtomicOrFailed ==
    [][ ( lastOp'.op = "ingest" /\ lastOp'.outcome = "raised" ) =>
          /\ Post.index = Pre.index
          /\ Post.metadata = Pre.metadata
      ]_vars

----------------------------------------------------------------------------
(* C9 *)

\* C9: when writing the Index file or the Metadata file fails during ingest, the
\* call raises and never returns {success: true, ...}; save is called once, and the
\* file whose write failed is not written again.
C9_PersistenceFailureSurfaces ==
    [][ ( /\ lastOp'.op = "ingest"
          /\ lastOp'.fault \in SaveFaults
          /\ \E i \in 1..Len(lastOp'.calls) : lastOp'.calls[i] = "save" ) =>
          /\ lastOp'.outcome = "raised"
          /\ ~lastOp'.success
          /\ lastOp'.error = "OSError"
          /\ Cardinality({ i \in 1..Len(lastOp'.calls) : lastOp'.calls[i] = "save" }) = 1
          /\ lastOp'.fault = "write_index_open" =>
                indexFile' = indexFile /\ metaFile' = metaFile
          /\ lastOp'.fault = "write_index_partial" =>
                indexFile' = PartialIndexFile /\ metaFile' = metaFile
          /\ lastOp'.fault = "metadata_open" => metaFile' = metaFile
          /\ lastOp'.fault = "metadata_partial" => metaFile' = PartialMetaFile
      ]_vars

\* an ingest whose save wrote the Index file and could not open the Metadata file
C9_Witness ==
    /\ lastOp.op = "ingest"
    /\ lastOp.fault = "metadata_open"
    /\ lastOp.outcome = "raised"
    /\ indexFile.state = "intact"
    /\ indexFile.ntotal > MetaFileLen

----------------------------------------------------------------------------
(* C10 *)

\* C10 as stated: across every call on a store, the Metadata log and the Index
\* before the call are prefixes of those after it, and only a successful ingest
\* makes them longer.
C10_AppendOnly ==
    [][ \A s \in Stores :
          ( stores[s].state = "LOADED" /\ stores'[s].state = "LOADED" ) =>
             /\ IsPrefix(stores[s].metadata.documents, stores'[s].metadata.documents)
             /\ IsPrefix(stores[s].index.xb, stores'[s].index.xb)
             /\ ( \/ stores'[s].metadata.documents # stores[s].metadata.documents
                  \/ stores'[s].index.xb # stores[s].index.xb )
                => ( lastOp'.op = "ingest" /\ lastOp'.success )
      ]_vars

----------------------------------------------------------------------------
(* C11 *)

\* the results that are the chunk of the record rec
ResultsOf(results, rec) ==
    { i \in 1..Len(results) :
        results[i].text = rec.text /\ results[i].source = rec.source }

\* the records that hold the same chunk as the record rec
RecordsOf(documents, rec) ==
    { i \in 1..Len(documents) :
        documents[i].text = rec.text /\ documents[i].source = rec.source }

\* query returned min(top_k, index size) results, and every stored chunk exactly
\* once when top_k is at least the index size
ClampedResults(st, top_k, results) ==
    /\ Len(results) = Min(top_k, ntotal(st.index))
    /\ top_k >= ntotal(st.index) =>
          \A j \in 1..Len(st.metadata.documents) :
             Cardinality(ResultsOf(results, st.metadata.documents[j]))
                 = Cardinality(RecordsOf(st.metadata.documents, st.metadata.documents[j]))

\* C11 as stated: on a store with a non-empty Index, query(text, top_k) with
\* top_k >= 1 returns exactly min(top_k, index size) results, and every stored
\* chunk exactly once when top_k is larger than the number of stored chunks.
C11_TopKClamping ==
    ( /\ lastOp.op = "query"
      /\ lastOp.outcome = "returned"
      /\ lastOp.top_k >= 1
      /\ ntotal(Last.index) > 0 ) => ClampedResults(Last, lastOp.top_k, lastOp.results)

\* C11 as amended: the same, on a store whose Metadata log holds as many records
\* as its Index holds vectors.
C11_TopKClampingAligned ==
    ( /\ lastOp.op = "query"
      /\ lastOp.outcome = "returned"
      /\ lastOp.top_k >= 1
      /\ ntotal(Last.index) > 0
      /\ Aligned(Last) ) => ClampedResults(Last, lastOp.top_k, lastOp.results)

\* query with top_k = 100 on a store of three chunks, which returns three results
C11_Witness ==
    /\ lastOp.op = "query"
    /\ lastOp.outcome = "returned"
    /\ lastOp.top_k = 100
    /\ Aligned(Last)
    /\ ntotal(Last.index) = 3
    /\ Len(lastOp.results) = 3

----------------------------------------------------------------------------
(* C12 *)

\* C12: on a store whose Index holds no vectors, query returns the empty sequence
\* for every query text and top_k, and the embedding model is not called, so a
\* failing embedding model does not make the call fail.
C12_EmptyIndexQuery ==
    ( lastOp.op = "query" /\ ntotal(Last.index) = 0 ) =>
        /\ lastOp.outcome = "returned"
        /\ lastOp.results = <<>>
        /\ \A i \in 1..Len(lastOp.calls) : lastOp.calls[i] # "encode"

\* a query on a freshly created store while the embedding model is failing
C12_Witness ==
    /\ lastOp.op = "query"
    /\ lastOp.fault = "encode"
    /\ lastOp.outcome = "returned"
    /\ ntotal(Last.index) = 0
    /\ indexFile.state = "absent"

----------------------------------------------------------------------------
(* C13 *)

\* the vector that the store's embedding model gives the query text of the last call
QueryVector ==
    LET chars == CHOOSE t \in QueryTexts : Str(t) = lastOp.text
    IN  EncodeText(Last.embedding_model_name, chars).x

\* the distance from the query vector to the vector stored at offset o
DistanceAt(o) == L2Sqr(Last.index.xb[o + 1], QueryVector)

\* the results are the nearest stored chunks, nearest first: the i-th result is at
\* the i-th smallest distance among the stored vectors, and is the chunk record at
\* the offset of a vector at that distance; its fields are text, source, distance
NearestFirst(results) ==
    LET offsets == 0..(ntotal(Last.index) - 1)
    IN  /\ \A i, j \in 1..Len(results) :
              i <= j => results[i].distance <= results[j].distance
        /\ \A i \in 1..Len(results) :
              /\ DOMAIN results[i] = {"text", "source", "distance"}
              /\ \E o \in offsets :
                    /\ o < Len(Last.metadata.documents)
                    /\ results[i].text = Last.metadata.documents[o + 1].text
                    /\ results[i].source = Last.metadata.documents[o + 1].source
                    /\ results[i].distance = DistanceAt(o)
              /\ Cardinality({o \in offsets : DistanceAt(o) < results[i].distance}) < i
              /\ Cardinality({o \in offsets : DistanceAt(o) <= results[i].distance}) >= i

\* C13 as stated: the results of query (the store has no reranker) are the nearest
\* stored chunks in ascending order of distance to the query vector; each result
\* has text, source and distance from the chunk record at the neighbour's offset
\* and no rerank_score.
C13_NearestFirst ==
    ( lastOp.op = "query" /\ lastOp.outcome = "returned" ) => NearestFirst(lastOp.results)

\* C13 as amended: the same, on a store whose Metadata log holds as many records
\* as its Index holds vectors.
C13_NearestFirstAligned ==
    ( /\ lastOp.op = "query"
      /\ lastOp.outcome = "returned"
      /\ Aligned(Last) ) => NearestFirst(lastOp.results)

\* a query on three chunks that returns them in another order than they are stored
C13_Witness ==
    /\ lastOp.op = "query"
    /\ lastOp.outcome = "returned"
    /\ Aligned(Last)
    /\ Len(lastOp.results) = 3
    /\ lastOp.results[1].text = Last.metadata.documents[3].text
    /\ lastOp.results[1].distance < lastOp.results[2].distance
    /\ lastOp.results[2].distance < lastOp.results[3].distance

----------------------------------------------------------------------------
(* C14 *)

\* the value of the attribute of a store object, as the caller reads it
GetAttr(st, name) == IF name \in DOMAIN st THEN st[name] ELSE "AttributeError"

\* every result carries a rerank_score, and the scores descend along the sequence
RankedByScore(results) ==
    /\ \A i \in 1..Len(results) : "rerank_score" \in DOMAIN results[i]
    /\ \A i, j \in 1..Len(results) :
          i <= j => results[i].rerank_score >= results[j].rerank_score

\* C14 as stated: a constructor call with rerank_model_name (over an empty
\* directory) gives a store with a
\* reranker that is not None, and every query on that store returns results that
\* carry a rerank_score, sorted by rerank_score descending; a constructor call
\* without rerank_model_name gives a store whose reranker and rerank_model_name
\* are both None.
C14_RerankerConfigured ==
    /\ ( lastOp.op = "construct_reranking" /\ indexFile.state = "absent" ) =>
          /\ Last.state = "LOADED"
          /\ GetAttr(Last, "reranker") \notin {"None", "AttributeError"}
          /\ GetAttr(Last, "rerank_model_name") = lastOp.rerank_model_name
    /\ ( lastOp.op = "construct" /\ lastOp.outcome = "returned" ) =>
          /\ GetAttr(Last, "reranker") = "None"
          /\ GetAttr(Last, "rerank_model_name") = "None"
    /\ ( /\ lastOp.op = "query"
         /\ lastOp.outcome = "returned"
         /\ GetAttr(Last, "reranker") \notin {"None", "AttributeError"} ) =>
          RankedByScore(lastOp.results)

----------------------------------------------------------------------------
(* C15 *)

\* the chunks of a result sequence: text, source and distance of each result
ChunksOf(results) ==
    { [text |-> results[i].text, source |-> results[i].source,
       distance |-> results[i].distance] : i \in 1..Len(results) }

\* C15 as stated: over the same store contents, a store constructed with a
\* reranker answers every query text and top_k with the same set of chunks, each
\* with the same text, source and distance, as the store constructed without one.
C15_RerankOnlyReorders ==
    LET plain == ConstructOutcome(lastOp.model, indexFile, metaFile, "none")
    IN  ( lastOp.op = "construct_reranking" /\ plain.error = "" ) =>
            /\ Last.state = "LOADED"
            /\ \A text \in QueryTexts, k \in TopKs :
                  /\ Len(QueryOutcome(Last, text, k, "none").results)
                        = Len(QueryOutcome(plain.store, text, k, "none").results)
                  /\ ChunksOf(QueryOutcome(Last, text, k, "none").results)
                        = ChunksOf(QueryOutcome(plain.store, text, k, "none").results)

----------------------------------------------------------------------------
(* C16 *)

\* the characters of the query text of the call of this step
QueryChars == CHOOSE t \in QueryTexts : Str(t) = lastOp'.text

\* C16: a query call leaves the store as it was, the same call made again on the
\* store returns the same result sequence, with the same order and the same
\* distances, and so does a query call that directly follows one with the same
\* query text and top_k.
C16_QueryIdempotent ==
    [][ ( lastOp'.op = "query" /\ lastOp'.outcome = "returned" ) =>
          /\ Post = Pre
          /\ QueryOutcome(Post, QueryChars, lastOp'.top_k, "none").results
                = lastOp'.results
          /\ ( /\ lastOp.op = "query"
               /\ lastOp.outcome = "returned"
               /\ lastOp.store = lastOp'.store
               /\ lastOp.text = lastOp'.text
               /\ lastOp.top_k = lastOp'.top_k ) => lastOp'.results = lastOp.results
      ]_vars

\* a query that returned several results at different distances
C16_Witness ==
    /\ lastOp.op = "query"
    /\ lastOp.outcome = "returned"
    /\ Len(lastOp.results) >= 2
    /\ lastOp.results[1].distance # lastOp.results[2].distance

----------------------------------------------------------------------------
(* C17 *)

\* C17: a successful ingest returns success = true, chunks_added equal to the
\* number of chunks that chunk_text gives for the document, at least 1, and
\* total_documents equal to the length of the Metadata log after the call, which
\* is its length before the call plus chunks_added; the log of a store never gets
\* shorter, so total_documents never decreases from one successful ingest on a
\* store to the next.
C17_IngestAccounting ==
    [][ /\ ( lastOp'.op = "ingest" /\ lastOp'.outcome = "returned"
                                  /\ lastOp'.doc \notin {"empty", "blank"} ) =>
              /\ lastOp'.success
              /\ lastOp'.chunks_added = Len(DocChunks[lastOp'.doc])
              /\ lastOp'.chunks_added >= 1
              /\ lastOp'.total_documents = Len(Post.metadata.documents)
              /\ lastOp'.total_documents
                    = Len(Pre.metadata.documents) + lastOp'.chunks_added
        /\ ( lastOp'.op = "ingest" /\ lastOp'.success ) =>
              lastOp'.total_documents >= Len(Pre.metadata.documents)
        /\ ( /\ lastOp.op = "ingest" /\ lastOp.success
             /\ lastOp'.op = "ingest" /\ lastOp'.success
             /\ lastOp'.store = lastOp.store ) =>
              lastOp'.total_documents >= lastOp.total_documents
        /\ \A s \in Stores :
              ( stores[s].state = "LOADED" /\ stores'[s].state = "LOADED" ) =>
                 Len(stores'[s].metadata.documents) >= Len(stores[s].metadata.documents)
      ]_vars

\* a successful ingest of two chunks that follows a successful ingest of one
C17_Witness ==
    /\ lastOp.op = "ingest"
    /\ lastOp.success
    /\ lastOp.doc = "long"
    /\ lastOp.chunks_added = 2
    /\ lastOp.total_documents = 3
    /\ Len(Last.metadata.documents) = 3

----------------------------------------------------------------------------
(* C18 *)

\* the text holds a character that is not whitespace
HasWord(text) == \E i \in 1..Len(text) : text[i] \notin Whitespace

\* C18: for a document with at least one non-whitespace word and 0 <= overlap <
\* chunk_size, chunk_text returns a non-empty sequence in which no chunk is empty
\* or whitespace-only; for an empty or whitespace-only document it returns the
\* empty sequence.
C18_ChunksNonEmpty ==
    lastOp.op = "chunk_text" =>
        IF HasWord(lastOp.chars)
        THEN /\ lastOp.chunks # <<>>
             /\ \A c \in 1..Len(lastOp.chunks) : HasWord(lastOp.chunks[c])
        ELSE lastOp.chunks = <<>>

\* a text with whitespace before, between and after its words, cut into several
\* chunks
C18_Witness ==
    /\ lastOp.op = "chunk_text"
    /\ lastOp.chars = <<" ", "a", "\n", "b", " ">>
    /\ Len(lastOp.chunks) = 2

----------------------------------------------------------------------------
(* C19 *)

\* the words joined by single spaces, from the left
RECURSIVE SpaceJoined(_)
SpaceJoined(words) ==
    IF Len(words) = 1 THEN words[1]
    ELSE SpaceJoined(SubSeq(words, 1, Len(words) - 1)) \o <<" ">> \o words[Len(words)]

\* C19: for a document of n whitespace-separated words and 0 <= overlap <
\* chunk_size, chunk_text returns ceil(n / (chunk_size - overlap)) chunks; chunk j
\* (from 0) is the words at the positions from j * (chunk_size - overlap) up to but
\* excluding min(j * (chunk_size - overlap) + chunk_size, n), joined by single
\* spaces, so the chunks are in document order and start chunk_size - overlap
\* words apart; every word is in at least one chunk.
C19_ChunkWindows ==
    lastOp.op = "chunk_text" =>
        LET words == Split(lastOp.chars)
            n == Len(words)
            stride == lastOp.chunk_size - lastOp.overlap
            first(j) == j * stride
            last(j) == Min(j * stride + lastOp.chunk_size, n)
        IN  /\ Len(lastOp.chunks) * stride >= n
            /\ (Len(lastOp.chunks) - 1) * stride < n \/ Len(lastOp.chunks) = 0
            /\ \A j \in 0..(Len(lastOp.chunks) - 1) :
                  lastOp.chunks[j + 1] = SpaceJoined(SubSeq(words, first(j) + 1, last(j)))
            /\ \A p \in 0..(n - 1) :
                  \E j \in 0..(Len(lastOp.chunks) - 1) : first(j) <= p /\ p < last(j)

\* three words cut with chunk_size 2 and overlap 1: three chunks, the last one
\* the last word alone
C19_Witness ==
    /\ lastOp.op = "chunk_text"
    /\ lastOp.chars = <<"a", " ", "b", "\n", "a">>
    /\ lastOp.chunk_size = 2
    /\ lastOp.overlap = 1
    /\ lastOp.chunks = << <<"a", " ", "b">>, <<"b", " ", "a">>, <<"a">> >>

----------------------------------------------------------------------------
(* C20 *)

\* C20 as stated: every chunk record appended by a successful ingest carries the
\* source passed to that ingest, the text of its chunk and an indexed_at
\* timestamp, so every record of the Metadata log of a store has an indexed_at
\* field.
C20_RecordsTimestamped ==
    /\ ( lastOp.op = "ingest" /\ lastOp.success ) =>
          LET documents == Last.metadata.documents
              start == Len(documents) - lastOp.chunks_added
          IN  \A i \in 1..lastOp.chunks_added :
                 /\ documents[start + i].source = lastOp.source
                 /\ documents[start + i].text = DocTexts[lastOp.doc][i]
                 /\ "indexed_at" \in DOMAIN documents[start + i]
    /\ \A s \in Stores : \A i \in 1..Len(stores[s].metadata.documents) :
          "indexed_at" \in DOMAIN stores[s].metadata.documents[i]

----------------------------------------------------------------------------
(* C21 *)

\* C21: a constructor call takes a store from UNINITIALIZED to LOADED when it
\* returns (the files loaded, or both created empty in memory) and to FAILED when
\* it raises, as it does on a dimension mismatch; nothing is called on a FAILED
\* store and it never becomes LOADED; ingest, query and save run on LOADED stores
\* only and leave the store LOADED.
C21_LifeCycle ==
    [][ /\ lastOp'.op = "construct" =>
              /\ Pre.state = "UNINITIALIZED"
              /\ lastOp'.outcome = "returned" =>
                    /\ Post.state = "LOADED"
                    /\ Post.index = IF indexFile.state = "absent"
                                    THEN IndexFlatL2(ModelDim(lastOp'.model))
                                    ELSE read_index(indexFile)
                    /\ Post.metadata.documents = metaFile.documents
              /\ lastOp'.outcome = "raised" => Post.state = "FAILED"
              /\ ( /\ lastOp'.fault = "none"
                   /\ indexFile.state = "intact"
                   /\ indexFile.d # ModelDim(lastOp'.model) ) => Post.state = "FAILED"
        /\ lastOp'.op \in {"ingest", "query", "save"} =>
              /\ Pre.state = "LOADED"
              /\ Post.state = "LOADED"
        /\ \A s \in Stores :
              stores[s].state = "FAILED" =>
                 /\ stores'[s].state \in {"FAILED", "UNINITIALIZED"}
                 /\ stores'[s].state = "UNINITIALIZED" => lastOp'.op = "release"
      ]_vars

\* a query answered by a store that was loaded from the files of an earlier store
\* and has ingested since
C21_Witness ==
    /\ lastOp.op = "query"
    /\ lastOp.outcome = "returned"
    /\ Last.state = "LOADED"
    /\ Len(lastOp.results) >= 1
    /\ ntotal(Last.index) > IndexFileLen
    /\ IndexFileLen >= 1

----------------------------------------------------------------------------
(* C22 *)

\* the vectors that model m gives the chunks of the documents
VectorsOfModel(m) ==
    { DocEmbeddings[m][c[1]][c[2]].x :
        c \in { d \in DocNames \X (1..MaxVectors) : d[2] <= Len(DocTexts[d[1]]) } }

\* C22 as stated: in every reachable state of a store the model field of the
\* Metadata log names the embedding model that produced the vectors of the store.
C22_ModelField ==
    \A s \in Stores :
        stores[s].state = "LOADED" =>
            \A i \in 1..ntotal(stores[s].index) :
                stores[s].index.xb[i] \in VectorsOfModel(stores[s].metadata.model)

\* C22 as amended: the model field is the embedding_model_name of the constructor
\* call that found no Metadata file, a constructor call that finds a Metadata file
\* takes the field from the file whatever its own model, also when that is a
\* different model of the Index's dimension, and no call changes the field
\* afterwards; the vectors that ingest adds come from the store's own embedding
\* model.
C22_ModelFieldKept ==
    [][ /\ ( lastOp'.op = "construct" /\ indexFile.state # "partial" ) =>
              /\ lastOp'.outcome = "returned"
              /\ Post.embedding_model_name = lastOp'.model
              /\ Post.metadata.model = IF metaFile.state = "absent" THEN lastOp'.model
                                       ELSE metaFile.model
        /\ \A s \in Stores :
              ( stores[s].state = "LOADED" /\ stores'[s].state = "LOADED" ) =>
                 stores'[s].metadata.model = stores[s].metadata.model
        /\ ( lastOp'.op = "ingest" /\ Post.index # Pre.index ) =>
              Post.index.xb = Pre.index.xb \o
                 [i \in 1..Len(DocTexts[lastOp'.doc]) |->
                     DocEmbeddings[Pre.embedding_model_name][lastOp'.doc][i].x]
      ]_vars

\* a store loaded with all-MiniLM-L12-v2 over the files of an all-MiniLM-L6-v2
\* store, after it has ingested a document
C22_Witness ==
    /\ lastOp.op = "ingest"
    /\ lastOp.success
    /\ Last.embedding_model_name = "all-MiniLM-L12-v2"
    /\ Last.metadata.model = "all-MiniLM-L6-v2"
    /\ ntotal(Last.index) >= 2

----------------------------------------------------------------------------
(* C23 *)

\* the neighbours that the Index gives the query of the last call
LastNeighbours ==
    IndexSearch(Last.index, QueryVector, Min(lastOp.top_k, ntotal(Last.index)))

\* C23: on a store whose Index holds more vectors than the Metadata log has
\* records, a query whose embedding call succeeds returns; there is one result
\* for each neighbour whose offset is below the log length and none for the
\* others, every result is the record at such an offset with the distance of the
\* vector there, and there are at most min(top_k, index size) results.
C23_DefensiveSkip ==
    ( /\ lastOp.op = "query"
      /\ lastOp.fault = "none"
      /\ ntotal(Last.index) > Len(Last.metadata.documents) ) =>
        /\ lastOp.outcome = "returned"
        /\ Len(lastOp.results) <= Min(lastOp.top_k, ntotal(Last.index))
        /\ Len(lastOp.results)
              = Cardinality({ n \in 1..Len(LastNeighbours) :
                                LastNeighbours[n].idx < Len(Last.metadata.documents) })
        /\ \A i \in 1..Len(lastOp.results) :
              \E o \in 0..(Len(Last.metadata.documents) - 1) :
                 /\ lastOp.results[i].text = Last.metadata.documents[o + 1].text
                 /\ lastOp.results[i].source = Last.metadata.documents[o + 1].source
                 /\ lastOp.results[i].distance = DistanceAt(o)

\* a query on an Index of three vectors with a log of two records, which returns
\* two results
C23_Witness ==
    /\ lastOp.op = "query"
    /\ lastOp.outcome = "returned"
    /\ ntotal(Last.index) = 3
    /\ Len(Last.metadata.documents) = 2
    /\ lastOp.top_k >= 3
    /\ Len(lastOp.results) = 2

----------------------------------------------------------------------------
(* The server: tool calls *)

\* the pending call that the step's call_tool has handled
Handled(c) ==
    /\ c \in server.pending
    /\ c.name = lastOp'.tool
    /\ c.arguments = lastOp'.arguments
    /\ server'.pending = server.pending \ {c}
    /\ server'.served = server.served + 1

\* C24: Run to completion. No tool call is ever suspended in the middle of its
\* handler: every pending call is one whose handler has not started; and while
\* the server serves, the store and the two files change only in a step that is
\* a whole call_tool, from the start of the handler of one pending call to its
\* return, so that each call finds the store and the files as the last
\* finished call left them.
C24_RunToCompletion ==
    /\ [](\A c \in server.pending : c.pc = "start")
    /\ [][(/\ server.phase = "serving"
           /\ \/ stores' # stores
              \/ indexFile' # indexFile
              \/ metaFile' # metaFile
              \/ lastOp' # lastOp)
          => /\ lastOp'.op = "call_tool"
             /\ \E c \in server.pending : Handled(c)]_vars

\* an ingest_document call has changed the store and the files while a
\* query_rag_store call was waiting for its handler to start
C24_Witness ==
    /\ lastOp.op = "call_tool"
    /\ lastOp.tool = "ingest_document"
    /\ lastOp.success
    /\ lastOp.chunks_added > 0
    /\ \E c \in server.pending : c.name = "query_rag_store"

----------------------------------------------------------------------------
(* Crash during save *)

\* the step is an ingest whose save failed, after the Index and the Metadata log
\* were updated in memory
SaveFailed ==
    /\ lastOp'.op = "ingest"
    /\ lastOp'.fault \in SaveFaults
    /\ lastOp'.calls = <<"chunk_text", "encode", "index.add", "save">>

\* what a constructor call with the store's own model obtains from the files
\* that the step leaves
Reconstructed == ConstructOutcome(Pre.embedding_model_name, indexFile', metaFile', "none")

\* the constructor takes what the files hold, as it is
LoadsTheFiles(out) ==
    /\ out.error = ""
    /\ out.store.state = "LOADED"
    /\ ntotal(out.store.index) = IndexFileLen'
    /\ Len(out.store.metadata.documents) = MetaFileLen'
    /\ indexFile'.state = "intact" => out.store.index = read_index(indexFile')
    /\ metaFile'.state = "intact" => out.store.metadata = json_load(metaFile')

\* C25 as stated: after a failure at any point of the save of an ingest, the
\* Index file holds at least as many vectors as the Metadata file has records,
\* and a constructor call loads both files as they are.
C25_WriteOrderAndCrash ==
    [][SaveFailed => /\ IndexFileLen' >= MetaFileLen'
                     /\ LoadsTheFiles(Reconstructed)]_vars

\* C25, amended: save writes the Index file first and the Metadata file second.
\* When the save of an ingest fails at the Metadata file, the Index file already
\* holds the whole Index in memory; when it fails at the Index file, the Metadata
\* file is untouched. If the failure leaves neither file written in part, the
\* Index file holds at least as many vectors as the Metadata file has records
\* and a constructor call loads them as they are, without any alignment check.
\* A failure in the middle of writing a file leaves that file unreadable, and
\* the constructor call raises instead of loading.
C25_WriteOrderAndCrashBetween ==
    [][SaveFailed =>
        /\ lastOp'.fault \in {"metadata_open", "metadata_partial"}
              => indexFile' = write_index(Post.index)
        /\ lastOp'.fault \in {"write_index_open", "write_index_partial"}
              => metaFile' = metaFile
        /\ (indexFile'.state # "partial" /\ metaFile'.state # "partial")
              => /\ IndexFileLen' >= MetaFileLen'
                 /\ LoadsTheFiles(Reconstructed)
        /\ lastOp'.fault = "write_index_partial"
              => /\ indexFile' = PartialIndexFile
                 /\ Reconstructed.error = "RuntimeError"
        /\ (lastOp'.fault = "metadata_partial" /\ indexFile.state # "partial")
              => /\ metaFile' = PartialMetaFile
                 /\ Reconstructed.error = "JSONDecodeError"]_vars

\* the save of a second ingest failed between the two files: the Index file
\* holds more vectors than the Metadata file has records
C25_Witness ==
    /\ lastOp.op = "ingest"
    /\ lastOp.fault = "metadata_open"
    /\ lastOp.outcome = "raised"
    /\ MetaFileLen > 0
    /\ IndexFileLen > MetaFileLen
    /\ ConstructOutcome(Last.embedding_model_name, indexFile, metaFile, "none").error = ""

----------------------------------------------------------------------------
(* Query is read-only *)

\* C26: a query call, whether it returns results, returns none or raises,
\* leaves every store object as it was (Index, Metadata log, dimension and
\* model), leaves both files as they were, and does not call save.
C26_QueryReadOnly ==
    [][lastOp'.op = "query" =>
        /\ stores' = stores
        /\ Post.index = Pre.index
        /\ Post.metadata = Pre.metadata
        /\ Post.dimension = Pre.dimension
        /\ indexFile' = indexFile
        /\ metaFile' = metaFile
        /\ \A i \in 1..Len(lastOp'.calls) : lastOp'.calls[i] # "save"]_vars

\* a query has returned results from a store whose Index in memory is not the
\* one in the Index file
C26_Witness ==
    /\ lastOp.op = "query"
    /\ lastOp.outcome = "returned"
    /\ lastOp.results # <<>>
    /\ Last.state = "LOADED"
    /\ metaFile # json_dump(Last.metadata)

----------------------------------------------------------------------------
(* Dimension binding *)

\* the rows that the step's ingest gave to index.add
AddedEmbeddings == DocEmbeddings[Pre.embedding_model_name][lastOp'.doc]

\* C27: in every LOADED store the dimension is the output width of the store's
\* embedding model and the Index has that dimension, whether the Index was
\* created empty or read from the Index file; the dimension and the Index's
\* dimension of a store object never change; every row that an ingest adds to
\* the Index has that dimension, so that index.add never fails on the width.
C27_DimensionBinding ==
    /\ [](\A s \in Stores : stores[s].state = "LOADED" =>
             /\ stores[s].dimension = ModelDim(stores[s].embedding_model_name)
             /\ stores[s].index.d = stores[s].dimension)
    /\ [][/\ \A s \in Stores :
                (stores[s].state = "LOADED" /\ stores'[s].state = "LOADED") =>
                    /\ stores'[s].dimension = stores[s].dimension
                    /\ stores'[s].index.d = stores[s].index.d
                    /\ stores'[s].embedding_model_name = stores[s].embedding_model_name
          /\ lastOp'.op = "ingest" =>
                /\ lastOp'.error # "AssertionError"
                /\ ntotal(Post.index) > ntotal(Pre.index) =>
                      /\ ntotal(Post.index) = ntotal(Pre.index) + Len(AddedEmbeddings)
                      /\ \A i \in 1..Len(AddedEmbeddings) :
                            /\ AddedEmbeddings[i].d = Pre.dimension
                            /\ Post.index.xb[ntotal(Pre.index) + i]
                                  = AddedEmbeddings[i].x]_vars

\* a store of the larger model has added rows in an ingest to an Index that
\* already held rows
C27_Witness ==
    /\ lastOp.op = "ingest"
    /\ lastOp.success
    /\ Last.dimension = ModelDim("all-mpnet-base-v2")
    /\ ntotal(Last.index) > lastOp.chunks_added
    /\ indexFile.d = Last.dimension

----------------------------------------------------------------------------
(* Store before serving *)

\* C28: the server takes tool calls only after main has constructed the shared
\* store, and only if the constructor returned: while it serves, vector_store
\* is a LOADED store, the one that main constructed (its model and dimension
\* are those of main's constructor call ever after); every ingest_document and
\* query_rag_store call is applied to it and none finds vector_store unset;
\* when the constructor raises, main ends without serving, and no tool call is
\* accepted or handled then or later.
C28_StoreBeforeServing ==
    /\ [](/\ server.phase = "serving" => stores[TheStore].state = "LOADED"
          /\ (server.pending # {} \/ server.served > 0) => server.phase = "serving"
          /\ server.phase = "exited" => stores[TheStore].state = "FAILED"
          /\ server.phase = "starting" => stores[TheStore] = NoStore)
    /\ [][/\ (lastOp'.op = "main" /\ lastOp.op # "main") =>
                /\ server.phase = "starting"
                /\ server'.phase = IF lastOp'.outcome = "returned"
                                   THEN "serving" ELSE "exited"
                /\ stores'[TheStore].state = "LOADED" <=> lastOp'.outcome = "returned"
          /\ server.phase = "exited" => server' = server /\ stores' = stores
          /\ server.phase = "serving" =>
                /\ server'.phase = "serving"
                /\ stores'[TheStore].embedding_model_name
                      = stores[TheStore].embedding_model_name
                /\ stores'[TheStore].dimension = stores[TheStore].dimension
          /\ (lastOp'.op = "call_tool" /\ lastOp' # lastOp
                /\ lastOp'.tool \in {"ingest_document", "query_rag_store"}) =>
                /\ lastOp'.store = TheStore
                /\ Pre.state = "LOADED"
                /\ lastOp'.error # "AttributeError"
                /\ \A s \in Stores \ {TheStore} : stores'[s] = stores[s]]_vars

\* the server has handled an ingest_document call and then a query_rag_store
\* call, which found what the first had put into the store
C28_Witness ==
    /\ server.phase = "serving"
    /\ server.served >= 2
    /\ lastOp.op = "call_tool"
    /\ lastOp.tool = "query_rag_store"
    /\ \E i \in 1..Len(lastOp.results) : lastOp.results[i].source = "doc1.txt"

----------------------------------------------------------------------------
(* Tool-call dispatch *)

\* the step is the handler of one tool call
CallToolStep == lastOp'.op = "call_tool" /\ server'.served = server.served + 1

NoResultsText == "No results found. The vector store may be empty."

\* the step's call of vector_store.ingest, as the store answers it
IngestResult ==
    IngestOutcome(Pre, lastOp'.doc, lastOp'.source, indexFile, metaFile, lastOp'.fault)

\* the step's call of vector_store.query with top_k, as the store answers it
QueryResult(top_k) ==
    QueryOutcome(Pre, lastOp'.arguments.query, top_k, lastOp'.fault)

----------------------------------------------------------------------------
(* Two store objects over the same files *)

\* the sources of the records of a Metadata log or file
SourcesOf(documents) == { documents[i].source : i \in 1..Len(documents) }

\* C29: a store object takes its Index and Metadata log from the files when it
\* is constructed and never reads them again: a successful ingest adds the
\* chunks to what the object holds in memory, whatever the files hold by then,
\* and overwrites both files with the whole of it, and no call on one object
\* changes another. So when A and B are constructed over the same files, A
\* ingests and then B ingests, the files hold what B loaded plus B's chunks, and
\* the chunks that A ingested after B's construction are no longer in them.
C29_TwoInstances ==
    [][/\ \A s \in Instances : s # lastOp'.store => stores'[s] = stores[s]
       /\ (lastOp'.op = "construct" /\ lastOp' # lastOp /\ lastOp'.outcome = "returned") =>
             /\ ntotal(Post.index) = IndexFileLen
             /\ Len(Post.metadata.documents) = MetaFileLen
             /\ indexFile.state = "intact" => Post.index = read_index(indexFile)
             /\ metaFile.state = "intact" => Post.metadata = json_load(metaFile)
             /\ indexFile' = indexFile /\ metaFile' = metaFile
       /\ (lastOp'.op = "ingest" /\ lastOp'.success) =>
             /\ Post.metadata.documents
                   = AppendRecords(Pre.metadata.documents, DocTexts[lastOp'.doc],
                                   lastOp'.source)
             /\ Post.index = IndexAdd(Pre.index, AddedEmbeddings)
             /\ indexFile' = write_index(Post.index)
             /\ metaFile' = json_dump(Post.metadata)
             /\ MetaFileLen' = Len(Pre.metadata.documents) + lastOp'.chunks_added
             /\ IngestOutcome(Pre, lastOp'.doc, lastOp'.source,
                              AbsentIndexFile, AbsentMetaFile, "none").store = Post]_vars

\* A and B were constructed over the same empty files, A ingested doc1.txt and
\* then B ingested another document: the files hold B's chunk only, A still
\* holds its chunks in memory
C29_Witness ==
    /\ lastOp.op = "ingest"
    /\ lastOp.store = 2
    /\ lastOp.success
    /\ stores[1].state = "LOADED"
    /\ "doc1.txt" \in SourcesOf(stores[1].metadata.documents)
    /\ "doc1.txt" \notin SourcesOf(metaFile.documents)
    /\ SourcesOf(metaFile.documents) = {"unknown"}
    /\ IndexFileLen = 1
    /\ ntotal(stores[1].index) = 2

====
